---- MODULE Spec2Model ----
(***************************************************************************)
(* A model of udatapath/pipeline.c: the multi-table packet pipeline of the *)
(* OpenFlow software switch (pipeline driver, instruction executor,        *)
(* flow-mod and table-mod handlers).                                       *)
(*                                                                         *)
(* The collaborators whose code is outside pipeline.c (the flow table, the *)
(* buffer pool, the action executor, the meter table, libc's qsort) are    *)
(* modelled by their interface; every outcome they can hand back to the    *)
(* pipeline is a nondeterministic input.                                   *)
(***************************************************************************)
EXTENDS Integers, Sequences, FiniteSets, TLC

VARIABLES
    flows,        \* pl->tables[i]'s flow entries, per table id
    desc,         \* pl->tables[i]->desc (config, vacancy property), per table id
    features,     \* pl->tables[i]->features, per table id
    config,       \* pl->dp->config (flags, miss_send_len)
    libc_qsort,   \* which qsort the build links against
    buffers,      \* pl->dp->buffers: buffer id -> packet or NULL
    pc,           \* position of pipeline_process_packet: idle, loop, done
    pkt,          \* the packet of the current (or last) pipeline_process_packet call
    next_table,   \* pipeline_process_packet's next_table
    log,          \* the calls the current (or last) pipeline_process_packet made
    call,         \* the handler call in progress or last returned
    ret,          \* the ofl_err the last handler call returned
    inbox,        \* a message drawn at start-up (single-call specifications)
    saved_features,  \* pl->tables[i]->saved_features, per table id
    remotes,      \* sender->remote of each controller connection: mp_req_msg, mp_req_xid
    replies,      \* the messages the last multipart handler call sent, in order
    pipeline_tables, \* the PIPELINE_TABLES the build was compiled with
    frags         \* per remote, the bodies of the fragments its pending request was sent in

vars == <<flows, desc, features, config, libc_qsort, buffers, pc, pkt, next_table,
          log, call, ret, inbox, saved_features, remotes, replies, pipeline_tables,
          frags>>

\* the state of the multipart handlers and of table-features save/restore
mp_vars == <<saved_features, remotes, replies, pipeline_tables, frags>>

----------------------------------------------------------------------------
(* Bounds of the model. *)

\* most flow entries the pipeline holds at a time (all tables together)
MaxFlows == 2
\* most table lookups of one pipeline_process_packet call that are followed
MaxLookups == 3
\* slots of the buffer pool
MaxBuffers == 1

----------------------------------------------------------------------------
(* Program constants. *)

PIPELINE_TABLES == 64
TableIds == 0 .. (PIPELINE_TABLES - 1)
\* table_id 0xff: all tables
ALL_TABLES == 255
LPM_TABLE == 61
SYNC_MASTER_TABLE == 62
SYNC_SLAVE_TABLE == 63

NO_TABLE == -1
NO_BUFFER == -1
\* 0xffffffffffffffff as a 64 bit two's complement number
COOKIE_ALL_ONES == -1

\* enum ofp_instruction_type
OFPIT_GOTO_TABLE == 1
OFPIT_WRITE_METADATA == 2
OFPIT_WRITE_ACTIONS == 3
OFPIT_APPLY_ACTIONS == 4
OFPIT_CLEAR_ACTIONS == 5
OFPIT_METER == 6

Roles == {"OFPCR_ROLE_EQUAL", "OFPCR_ROLE_MASTER", "OFPCR_ROLE_SLAVE"}
Commands == {"OFPFC_ADD", "OFPFC_MODIFY", "OFPFC_MODIFY_STRICT",
             "OFPFC_DELETE", "OFPFC_DELETE_STRICT"}

\* ofl_error(type, code); 0 is success
OK == "0"
IS_SLAVE == "OFPET_BAD_REQUEST/OFPBRC_IS_SLAVE"
BAD_NW_ADDR_MASK == "OFPET_BAD_MATCH/OFPBMC_BAD_NW_ADDR_MASK"
BAD_PRIORITY == "OFPET_FLOW_MOD_FAILED/OFPFMFC_BAD_PRIORITY"
BAD_TABLE_ID == "OFPET_FLOW_MOD_FAILED/OFPFMFC_BAD_TABLE_ID"
BAD_ARGUMENT == "OFPET_TABLE_FEATURES_FAILED/OFPTFFC_BAD_ARGUMENT"
\* errors of the collaborators
BAD_ACTION == "OFPET_BAD_ACTION/OFPBAC_BAD_OUT_PORT"
TABLE_FULL == "OFPET_FLOW_MOD_FAILED/OFPFMFC_TABLE_FULL"

----------------------------------------------------------------------------
(* Instructions.  An instruction is a record [type, a, b]:                 *)
(*   Goto-Table      a = table_id                                          *)
(*   Write-Metadata  a = metadata, b = metadata_mask                       *)
(*   Write-Actions   a = the output port of its one action                 *)
(*   Apply-Actions   a = the output port of its one action                 *)
(*   Clear-Actions                                                         *)
(*   Meter           a = meter_id                                          *)

GotoTable(t) == [type |-> OFPIT_GOTO_TABLE, a |-> t, b |-> 0]
WriteMetadata(v, m) == [type |-> OFPIT_WRITE_METADATA, a |-> v, b |-> m]
WriteActions(port) == [type |-> OFPIT_WRITE_ACTIONS, a |-> port, b |-> 0]
ApplyActions(port) == [type |-> OFPIT_APPLY_ACTIONS, a |-> port, b |-> 0]
ClearActions == [type |-> OFPIT_CLEAR_ACTIONS, a |-> 0, b |-> 0]
Meter(id) == [type |-> OFPIT_METER, a |-> id, b |-> 0]

\* The execution order the comment of execute_entry documents, by type.
CanonicalTypes ==
    <<OFPIT_METER, OFPIT_APPLY_ACTIONS, OFPIT_CLEAR_ACTIONS,
      OFPIT_WRITE_ACTIONS, OFPIT_WRITE_METADATA, OFPIT_GOTO_TABLE>>

\* inst_compare: the comparison function handed to qsort
inst_compare(i1, i2) ==
    IF \/ (i1.type = OFPIT_APPLY_ACTIONS /\ i2.type = OFPIT_CLEAR_ACTIONS)
       \/ (i1.type = OFPIT_CLEAR_ACTIONS /\ i2.type = OFPIT_APPLY_ACTIONS)
    THEN (IF i1.type > i2.type THEN 1 ELSE 0)
    ELSE (IF i1.type < i2.type THEN 1 ELSE 0)

(* qsort.  inst_compare never returns a negative number, and answers 0     *)
(* ("equal") for a pair it answers 1 ("greater") for when the pair is      *)
(* swapped, so it is no ordering as qsort requires and the result depends  *)
(* on how the implementation reads the answers.  Two implementations:      *)
(*   merge      glibc's msort_with_tmp: merges two sorted halves, taking   *)
(*              the left element when cmp(left, right) <= 0;               *)
(*   insertion  an insertion sort: moves an element left while             *)
(*              cmp(element, predecessor) < 0.                             *)
QsortImpls == {"merge", "insertion"}

RECURSIVE Merge(_, _)
Merge(b1, b2) ==
    IF b1 = <<>> THEN b2
    ELSE IF b2 = <<>> THEN b1
    ELSE IF inst_compare(Head(b1), Head(b2)) <= 0
         THEN <<Head(b1)>> \o Merge(Tail(b1), b2)
         ELSE <<Head(b2)>> \o Merge(b1, Tail(b2))

RECURSIVE MSort(_)
MSort(b) ==
    IF Len(b) <= 1 THEN b
    ELSE LET n1 == Len(b) \div 2
         IN  Merge(MSort(SubSeq(b, 1, n1)), MSort(SubSeq(b, n1 + 1, Len(b))))

\* insert x into the sorted prefix s, scanning from its right end
RECURSIVE InsertLeft(_, _)
InsertLeft(s, x) ==
    IF s = <<>> THEN <<x>>
    ELSE IF inst_compare(x, s[Len(s)]) < 0
         THEN InsertLeft(SubSeq(s, 1, Len(s) - 1), x) \o <<s[Len(s)]>>
         ELSE s \o <<x>>

RECURSIVE ISort(_, _)
ISort(done, rest) ==
    IF rest = <<>> THEN done
    ELSE ISort(InsertLeft(done, Head(rest)), Tail(rest))

qsort(impl, b) ==
    IF impl = "merge" THEN MSort(b) ELSE ISort(<<>>, b)

----------------------------------------------------------------------------
(* Matches.  A match TLV is [header, value], value a sequence of bytes; a  *)
(* match is [length, match_fields].  For OXM_OF_IPV4_DST_W value[1..4] is  *)
(* the address and value[5..8] the mask (value[4..7] in C).                *)

RECURSIVE BitAnd(_, _)
BitAnd(x, y) ==
    IF x = 0 \/ y = 0 THEN 0
    ELSE 2 * BitAnd(x \div 2, y \div 2) + (IF x % 2 = 1 /\ y % 2 = 1 THEN 1 ELSE 0)

Tlv(header, value) == [header |-> header, value |-> value]

RECURSIVE TlvBytes(_)
TlvBytes(fields) ==
    IF fields = {} THEN 0
    ELSE LET f == CHOOSE x \in fields : TRUE
         IN  4 + Len(f.value) + TlvBytes(fields \ {f})

\* ofl_structs_match_put*: header.length grows by the TLV's 4 byte header
\* and its payload
MatchOf(fields) == [length |-> TlvBytes(fields), match_fields |-> fields]

MacA == <<0, 0, 0, 0, 0, 10>>
MacB == <<0, 0, 0, 0, 0, 11>>
IpA == <<10, 0, 0, 1>>
Tcp == <<6>>

(* Packets.  null is the state of the caller's pointer: meter_table_apply  *)
(* sets *pkt to NULL when it drops the packet.                             *)
Packet(ttl_valid, eth_src, eth_dst, ipv4_dst) ==
    [ttl_valid |-> ttl_valid, eth_src |-> eth_src, eth_dst |-> eth_dst,
     ipv4_dst |-> ipv4_dst, ip_proto |-> Tcp, metadata |-> 0, action_set |-> {},
     table_id |-> 0, table_miss |-> FALSE, buffer_id |-> NO_BUFFER,
     null |-> FALSE]

NoPkt == [Packet(FALSE, MacA, MacA, IpA) EXCEPT !.null = TRUE]

\* does the packet's parsed header satisfy one match field
TlvMatches(f, p) ==
    CASE f.header = "OXM_OF_ETH_DST" -> p.eth_dst = f.value
      [] f.header = "OXM_OF_ETH_SRC" -> p.eth_src = f.value
      [] f.header = "OXM_OF_IPV4_DST" -> p.ipv4_dst = f.value
      [] f.header = "OXM_OF_IP_PROTO" -> p.ip_proto = f.value
      [] f.header = "OXM_OF_IPV4_DST_W" ->
            \A i \in 1..4 :
                BitAnd(p.ipv4_dst[i], f.value[4 + i]) = BitAnd(f.value[i], f.value[4 + i])
      [] OTHER -> FALSE

----------------------------------------------------------------------------
(* Flow entries and the flow table (flow_table.c, flow_entry.c).           *)
(* An entry is [priority, match, instructions, cookie, sync_master,        *)
(* sync_slave]; a reference to an entry is [table, priority, match].       *)

Ref(t, e) == [table |-> t, priority |-> e.priority, match |-> e.match]
NullRef == [table |-> NO_TABLE, priority |-> 0, match |-> MatchOf({})]

EntryMatches(e, p) == \A f \in e.match.match_fields : TlvMatches(f, p)

\* flow_table_lookup: the matching entries of highest priority (one of
\* them is returned); none is a miss
flow_table_lookup(entries, p) ==
    {e \in entries :
        /\ EntryMatches(e, p)
        /\ \A o \in entries : EntryMatches(o, p) => o.priority <= e.priority}

\* the entries a non-strict MODIFY or DELETE applies to: the message's
\* match fields are all in the entry's match
Covered(entries, msg) ==
    {e \in entries : msg.match.match_fields \subseteq e.match.match_fields}

\* the entries a strict command or an ADD applies to
Same(entries, msg) ==
    {e \in entries : e.match = msg.match /\ e.priority = msg.priority}

NewEntry(msg) ==
    [priority |-> msg.priority, match |-> msg.match,
     instructions |-> msg.instructions, cookie |-> msg.cookie,
     sync_master |-> NullRef, sync_slave |-> NullRef]

(* flow_table_flow_mod(table, msg, &match_kept, &insts_kept, &flow).       *)
(* fails: the table reports an error (the entries stay as they are).       *)
flow_table_flow_mod(t, entries, msg, fails) ==
    IF fails
    THEN [error |-> TABLE_FULL, entries |-> entries, flow |-> NullRef]
    ELSE CASE msg.command = "OFPFC_ADD" ->
                [error |-> OK,
                 entries |-> (entries \ Same(entries, msg)) \cup {NewEntry(msg)},
                 flow |-> Ref(t, NewEntry(msg))]
           [] msg.command = "OFPFC_MODIFY" ->
                [error |-> OK,
                 entries |-> (entries \ Covered(entries, msg)) \cup
                     {[e EXCEPT !.instructions = msg.instructions] :
                          e \in Covered(entries, msg)},
                 flow |-> NullRef]
           [] msg.command = "OFPFC_MODIFY_STRICT" ->
                [error |-> OK,
                 entries |-> (entries \ Same(entries, msg)) \cup
                     {[e EXCEPT !.instructions = msg.instructions] :
                          e \in Same(entries, msg)},
                 flow |-> NullRef]
           [] msg.command = "OFPFC_DELETE" ->
                [error |-> OK, entries |-> entries \ Covered(entries, msg),
                 flow |-> NullRef]
           [] msg.command = "OFPFC_DELETE_STRICT" ->
                [error |-> OK, entries |-> entries \ Same(entries, msg),
                 flow |-> NullRef]

----------------------------------------------------------------------------
(* pipeline_handle_flow_mod.                                               *)
(* A flow-mod message is [table_id, command, priority, match,              *)
(* instructions, buffer_id, cookie].  What the collaborators answer during *)
(* the call is ext = [validate_err, fail_table, clone_err]:                *)
(*   validate_err  what dp_actions_validate / dp_actions_check_set_field_  *)
(*                 req return for the message's actions (OK: valid)        *)
(*   fail_table    the table whose flow_table_flow_mod fails (NO_TABLE:    *)
(*                 none)                                                   *)
(*   clone_err     ofl_msg_clone fails                                     *)

\* mask >>= 1, the mask as four bytes, most significant first
ShiftRight1(m) ==
    <<m[1] \div 2,
      (m[1] % 2) * 128 + (m[2] \div 2),
      (m[2] % 2) * 128 + (m[3] \div 2),
      (m[3] % 2) * 128 + (m[4] \div 2)>>

HOLE == -1

\* the scan of the mask that takes no notice of a hole
RECURSIVE MaskScanNoHole(_, _, _, _)
MaskScanNoHole(i, mask, found_one, num_zero) ==
    IF i = 32 THEN num_zero
    ELSE IF mask[4] % 2 = 1
         THEN MaskScanNoHole(i + 1, ShiftRight1(mask), TRUE,
                             IF found_one THEN num_zero ELSE i)
         ELSE MaskScanNoHole(i + 1, ShiftRight1(mask), found_one, num_zero)

(* The loop that validates that the mask is contiguous: the number of zero *)
(* bits below the lowest one bit (32 when there is no one bit), or HOLE    *)
(* when a zero bit lies above a one bit.                                   *)
RECURSIVE MaskScan(_, _, _, _)
MaskScan(i, mask, found_one, num_zero) ==
    IF i = 32 THEN num_zero
    ELSE IF mask[4] % 2 = 1
         THEN MaskScan(i + 1, ShiftRight1(mask), TRUE,
                       IF found_one THEN num_zero ELSE i)
         ELSE IF found_one THEN HOLE
              ELSE MaskScan(i + 1, ShiftRight1(mask), found_one, num_zero)

\* the field check that takes the number of zero bits for the prefix length
LpmFieldCheckZeroBits(oxm, priority) ==
    IF oxm.header = "OXM_OF_IPV4_DST_W"
    THEN LET num_zero == MaskScan(0, SubSeq(oxm.value, 5, 8), FALSE, 32)
         IN  IF num_zero = HOLE THEN BAD_NW_ADDR_MASK
             ELSE IF priority # num_zero THEN BAD_PRIORITY
             ELSE OK
    ELSE IF oxm.header = "OXM_OF_IPV4_DST"
         THEN (IF priority # 32 THEN BAD_PRIORITY ELSE OK)
         ELSE OK

\* the body of the HMAP_FOR_EACH loop for one match field
LpmFieldCheck(oxm, priority) ==
    IF oxm.header = "OXM_OF_IPV4_DST_W"
    THEN LET num_zero == MaskScan(0, SubSeq(oxm.value, 5, 8), FALSE, 32)
         IN  IF num_zero = HOLE THEN BAD_NW_ADDR_MASK
             ELSE IF priority # 32 - num_zero THEN BAD_PRIORITY
             ELSE OK
    ELSE IF oxm.header = "OXM_OF_IPV4_DST"
         THEN (IF priority # 32 THEN BAD_PRIORITY ELSE OK)
         ELSE OK

\* the validation run for the table below table 61
LpmCheckOtherTable(msg) ==
    IF msg.table_id = LPM_TABLE - 1 /\ msg.command = "OFPFC_ADD" /\ msg.match.length # 0
    THEN LET errs == {LpmFieldCheck(f, msg.priority) : f \in msg.match.match_fields} \ {OK}
         IN  IF errs = {} THEN OK ELSE CHOOSE e \in errs : TRUE
    ELSE OK

(* "Validate match for table 61 for Longuest Prefix Match": the loop ends  *)
(* at the first field that fails.  A match holds a field once (masked or   *)
(* not), so at most one field can fail and the iteration order of the hash *)
(* map does not show.                                                      *)
LpmCheck(msg) ==
    IF msg.table_id = LPM_TABLE /\ msg.command = "OFPFC_ADD" /\ msg.match.length # 0
    THEN LET errs == {LpmFieldCheck(f, msg.priority) : f \in msg.match.match_fields} \ {OK}
         IN  IF errs = {} THEN OK ELSE CHOOSE e \in errs : TRUE
    ELSE OK

\* "Validate actions in flow_mod": only Apply-Actions and Write-Actions
\* instructions are handed to the validators
ValidateActions(instructions, ext) ==
    IF \E i \in 1..Len(instructions) :
           instructions[i].type \in {OFPIT_APPLY_ACTIONS, OFPIT_WRITE_ACTIONS}
    THEN ext.validate_err
    ELSE OK

\* dp_buffers_retrieve: the packet of a live buffer id, which leaves the pool
dp_buffers_retrieve(bufs, id) ==
    IF id \in DOMAIN bufs /\ ~bufs[id].null
    THEN [pkt |-> [bufs[id] EXCEPT !.buffer_id = NO_BUFFER],
          buffers |-> [bufs EXCEPT ![id] = NoPkt]]
    ELSE [pkt |-> NoPkt, buffers |-> bufs]

\* the loop over all tables of a delete with table_id 0xff; it breaks at
\* the first error
RECURSIVE DeleteAllLoop(_, _, _, _)
DeleteAllLoop(fl, msg, ext, i) ==
    IF ~(i < PIPELINE_TABLES) THEN [error |-> OK, flows |-> fl]
    ELSE LET r == flow_table_flow_mod(i, fl[i], msg, ext.fail_table = i)
         IN  IF r.error # OK THEN [error |-> r.error, flows |-> fl]
             ELSE DeleteAllLoop([fl EXCEPT ![i] = r.entries], msg, ext, i + 1)

\* "Transpose the match": ETH_DST becomes ETH_SRC and ETH_SRC becomes ETH_DST
Transpose(match) ==
    [match EXCEPT !.match_fields =
        {IF oxm.header = "OXM_OF_ETH_DST" THEN [oxm EXCEPT !.header = "OXM_OF_ETH_SRC"]
         ELSE IF oxm.header = "OXM_OF_ETH_SRC" THEN [oxm EXCEPT !.header = "OXM_OF_ETH_DST"]
         ELSE oxm : oxm \in match.match_fields}]

\* the entry a reference names, with one field changed
SetLink(entries, ref, field, to) ==
    {IF Ref(ref.table, e) = ref
     THEN (IF field = "sync_master" THEN [e EXCEPT !.sync_master = to]
           ELSE [e EXCEPT !.sync_slave = to])
     ELSE e : e \in entries}

\* the mirror that links the slave entry to its master but not the master
\* entry to its slave
MirrorOneWay(fl, msg, ext, flow) ==
    IF msg.table_id = SYNC_MASTER_TABLE /\ msg.command = "OFPFC_ADD" /\ flow # NullRef
    THEN IF ext.clone_err THEN fl
         ELSE LET slave_msg == [msg EXCEPT !.match = Transpose(msg.match)]
                  sr == flow_table_flow_mod(SYNC_SLAVE_TABLE, fl[SYNC_SLAVE_TABLE],
                                            slave_msg, ext.fail_table = SYNC_SLAVE_TABLE)
              IN  IF sr.error # OK THEN fl
                  ELSE [fl EXCEPT
                          ![SYNC_SLAVE_TABLE] = SetLink(sr.entries, sr.flow, "sync_master", flow)]
    ELSE fl

\* "Table 63 is synchronised with table 62"
Mirror(fl, msg, ext, flow) ==
    IF msg.table_id = SYNC_MASTER_TABLE /\ msg.command = "OFPFC_ADD" /\ flow # NullRef
    THEN IF ext.clone_err THEN fl
         ELSE LET slave_msg == [msg EXCEPT !.match = Transpose(msg.match)]
                  sr == flow_table_flow_mod(SYNC_SLAVE_TABLE, fl[SYNC_SLAVE_TABLE],
                                            slave_msg, ext.fail_table = SYNC_SLAVE_TABLE)
              IN  IF sr.error # OK THEN fl
                  ELSE [fl EXCEPT
                          ![SYNC_SLAVE_TABLE] = SetLink(sr.entries, sr.flow, "sync_master", flow),
                          ![SYNC_MASTER_TABLE] = SetLink(fl[SYNC_MASTER_TABLE], flow, "sync_slave", sr.flow)]
    ELSE fl

(* The result of a call: the error returned, the tables, the message's     *)
(* instruction array and the buffer pool after it, the buffered packet it  *)
(* hands to pipeline_process_packet (NoPkt: none), and whether it freed    *)
(* the message.                                                            *)
Returned(error, fl, instructions, bufs, replay, freed) ==
    [ret |-> error, flows |-> fl, instructions |-> instructions,
     buffers |-> bufs, replay |-> replay, freed |-> freed]

\* the loop over all tables run for every command
FlowModAllTablesAnyCommand(fl, bufs, msg, ext) ==
    LET d == DeleteAllLoop(fl, msg, ext, 0)
    IN  IF d.error # OK
        THEN Returned(d.error, d.flows, msg.instructions, bufs, NoPkt, FALSE)
        ELSE Returned(OK, d.flows, msg.instructions, bufs, NoPkt, TRUE)

\* the 0xff branch that undoes the deletes when a table fails
FlowModAllTablesUnwind(fl, bufs, msg, ext) ==
    IF msg.command \in {"OFPFC_DELETE", "OFPFC_DELETE_STRICT"}
    THEN LET d == DeleteAllLoop(fl, msg, ext, 0)
         IN  IF d.error # OK
             THEN Returned(d.error, fl, msg.instructions, bufs, NoPkt, FALSE)
             ELSE Returned(OK, d.flows, msg.instructions, bufs, NoPkt, TRUE)
    ELSE Returned(BAD_TABLE_ID, fl, msg.instructions, bufs, NoPkt, FALSE)

\* if (msg->table_id == 0xff) { ... }
FlowModAllTables(fl, bufs, msg, ext) ==
    IF msg.command \in {"OFPFC_DELETE", "OFPFC_DELETE_STRICT"}
    THEN LET d == DeleteAllLoop(fl, msg, ext, 0)
         IN  IF d.error # OK
             THEN Returned(d.error, d.flows, msg.instructions, bufs, NoPkt, FALSE)
             ELSE Returned(OK, d.flows, msg.instructions, bufs, NoPkt, TRUE)
    ELSE Returned(BAD_TABLE_ID, fl, msg.instructions, bufs, NoPkt, FALSE)

\* the one-table branch that replays the buffered packet whatever the
\* command is
FlowModOneTableAnyCommand(fl, bufs, msg, ext) ==
    LET r == flow_table_flow_mod(msg.table_id, fl[msg.table_id], msg,
                                 ext.fail_table = msg.table_id)
    IN  IF r.error # OK
        THEN Returned(r.error, fl, msg.instructions, bufs, NoPkt, FALSE)
        ELSE LET fl1 == Mirror([fl EXCEPT ![msg.table_id] = r.entries], msg, ext, r.flow)
                 b == IF msg.buffer_id # NO_BUFFER
                      THEN dp_buffers_retrieve(bufs, msg.buffer_id)
                      ELSE [pkt |-> NoPkt, buffers |-> bufs]
             IN  Returned(OK, fl1, msg.instructions, b.buffers, b.pkt, TRUE)

\* else { ... }: one table, the mirror and the replay of the buffered packet
FlowModOneTable(fl, bufs, msg, ext) ==
    LET r == flow_table_flow_mod(msg.table_id, fl[msg.table_id], msg,
                                 ext.fail_table = msg.table_id)
    IN  IF r.error # OK
        THEN Returned(r.error, fl, msg.instructions, bufs, NoPkt, FALSE)
        ELSE LET fl1 == Mirror([fl EXCEPT ![msg.table_id] = r.entries], msg, ext, r.flow)
                 b == IF /\ msg.command \in {"OFPFC_ADD", "OFPFC_MODIFY",
                                             "OFPFC_MODIFY_STRICT"}
                         /\ msg.buffer_id # NO_BUFFER
                      THEN dp_buffers_retrieve(bufs, msg.buffer_id)
                      ELSE [pkt |-> NoPkt, buffers |-> bufs]
             IN  Returned(OK, fl1, msg.instructions, b.buffers, b.pkt, TRUE)

\* the handler that sorts the instructions before it looks at the role
pipeline_handle_flow_mod_sorts_first(fl, bufs, msg0, role, ext, impl) ==
    LET msg == [msg0 EXCEPT !.instructions = qsort(impl, msg0.instructions)]
    IN  IF role = "OFPCR_ROLE_SLAVE"
        THEN Returned(IS_SLAVE, fl, msg.instructions, bufs, NoPkt, FALSE)
        ELSE IF ValidateActions(msg.instructions, ext) # OK
        THEN Returned(ValidateActions(msg.instructions, ext), fl, msg.instructions, bufs,
                      NoPkt, FALSE)
        ELSE IF LpmCheck(msg) # OK
        THEN Returned(LpmCheck(msg), fl, msg.instructions, bufs, NoPkt, FALSE)
        ELSE IF msg.table_id = ALL_TABLES
        THEN FlowModAllTables(fl, bufs, msg, ext)
        ELSE FlowModOneTable(fl, bufs, msg, ext)

pipeline_handle_flow_mod(fl, bufs, msg0, role, ext, impl) ==
    IF role = "OFPCR_ROLE_SLAVE"
    THEN Returned(IS_SLAVE, fl, msg0.instructions, bufs, NoPkt, FALSE)
    ELSE
    LET msg == [msg0 EXCEPT !.instructions = qsort(impl, msg0.instructions)]
    IN  IF ValidateActions(msg.instructions, ext) # OK
        THEN Returned(ValidateActions(msg.instructions, ext), fl, msg.instructions, bufs,
                      NoPkt, FALSE)
        ELSE IF LpmCheck(msg) # OK
        THEN Returned(LpmCheck(msg), fl, msg.instructions, bufs, NoPkt, FALSE)
        ELSE IF msg.table_id = ALL_TABLES
        THEN FlowModAllTables(fl, bufs, msg, ext)
        ELSE FlowModOneTable(fl, bufs, msg, ext)

----------------------------------------------------------------------------
(* pipeline_handle_table_mod.                                              *)
(* A table descriptor is [config, properties], a property [type,           *)
(* vacancy_down, vacancy_up, vacancy, down_set]; a table-mod message is    *)
(* [table_id, config, props].                                              *)

FLOW_TABLE_MAX_ENTRIES == 4096

VacancyProp(down, up) ==
    [type |-> "OFPTMPT_VACANCY", vacancy_down |-> down, vacancy_up |-> up,
     vacancy |-> 0, down_set |-> FALSE]

\* the loops that set down_set only when the free percentage exceeds
\* vacancy_up
RECURSIVE UpdatePropsAbove(_, _, _, _, _)
UpdatePropsAbove(d, props, mpi, tpi, active_count) ==
    IF ~(mpi <= Len(props)) THEN [error |-> OK, desc |-> d]
    ELSE IF props[mpi].type # "OFPTMPT_VACANCY" \/ ~(tpi <= Len(d.properties))
    THEN UpdatePropsAbove(d, props, mpi + 1, 1, active_count)
    ELSE IF d.properties[tpi].type = "OFPTMPT_VACANCY"
    THEN IF props[mpi].vacancy_down > props[mpi].vacancy_up
         THEN [error |-> BAD_ARGUMENT, desc |-> d]
         ELSE UpdatePropsAbove(
                [d EXCEPT !.properties[tpi] =
                    [@ EXCEPT !.vacancy_down = props[mpi].vacancy_down,
                              !.vacancy_up = props[mpi].vacancy_up,
                              !.down_set =
                                  ((FLOW_TABLE_MAX_ENTRIES - active_count) * 100)
                                      \div FLOW_TABLE_MAX_ENTRIES > props[mpi].vacancy_up]],
                props, mpi, tpi + 1, active_count)
    ELSE UpdatePropsAbove(d, props, mpi, tpi + 1, active_count)

\* the loops over the message's properties (mpi) and the table's (tpi)
RECURSIVE UpdateProps(_, _, _, _, _)
UpdateProps(d, props, mpi, tpi, active_count) ==
    IF ~(mpi <= Len(props)) THEN [error |-> OK, desc |-> d]
    ELSE IF props[mpi].type # "OFPTMPT_VACANCY" \/ ~(tpi <= Len(d.properties))
    THEN UpdateProps(d, props, mpi + 1, 1, active_count)
    ELSE IF d.properties[tpi].type = "OFPTMPT_VACANCY"
    THEN IF props[mpi].vacancy_down > props[mpi].vacancy_up
         THEN [error |-> BAD_ARGUMENT, desc |-> d]
         ELSE UpdateProps(
                [d EXCEPT !.properties[tpi] =
                    [@ EXCEPT !.vacancy_down = props[mpi].vacancy_down,
                              !.vacancy_up = props[mpi].vacancy_up,
                              !.down_set =
                                  ((FLOW_TABLE_MAX_ENTRIES - active_count) * 100)
                                      \div FLOW_TABLE_MAX_ENTRIES >= props[mpi].vacancy_up]],
                props, mpi, tpi + 1, active_count)
    ELSE UpdateProps(d, props, mpi, tpi + 1, active_count)

\* for (ti = ti_start; ti < ti_stop; ti++)
RECURSIVE TableModLoop(_, _, _, _, _)
TableModLoop(ds, fl, msg, ti, ti_stop) ==
    IF ~(ti < ti_stop) THEN [error |-> OK, desc |-> ds]
    ELSE LET r == UpdateProps(ds[ti], msg.props, 1, 1, Cardinality(fl[ti]))
         IN  IF r.error # OK
             THEN [error |-> r.error, desc |-> [ds EXCEPT ![ti] = r.desc]]
             ELSE TableModLoop([ds EXCEPT ![ti] = [r.desc EXCEPT !.config = msg.config]],
                               fl, msg, ti + 1, ti_stop)

pipeline_handle_table_mod(ds, fl, msg, role) ==
    IF role = "OFPCR_ROLE_SLAVE"
    THEN [error |-> IS_SLAVE, desc |-> ds]
    ELSE IF msg.table_id = ALL_TABLES
         THEN TableModLoop(ds, fl, msg, 0, PIPELINE_TABLES)
         ELSE TableModLoop(ds, fl, msg, msg.table_id, msg.table_id)

----------------------------------------------------------------------------
(* pipeline_handle_table_features_save / _restore.  n is PIPELINE_TABLES.  *)

pipeline_handle_table_features_save(feats, saved, n) ==
    [t \in DOMAIN saved |->
        IF t < n THEN [saved[t] EXCEPT !.config = feats[t].config] ELSE saved[t]]

\* the restore that leaves the descriptors a request has replaced
pipeline_handle_table_features_restore_own(feats, saved, n) ==
    [t \in DOMAIN feats |->
        IF t < n /\ feats[t].name = "table"
        THEN [feats[t] EXCEPT !.config = saved[t].config] ELSE feats[t]]

pipeline_handle_table_features_restore(feats, saved, n) ==
    [t \in DOMAIN feats |->
        IF t < n THEN [feats[t] EXCEPT !.config = saved[t].config] ELSE feats[t]]

----------------------------------------------------------------------------
(* pipeline_handle_stats_request_table_features_request.                   *)
(* A table-features request is [null, flags, tables_num, table_features],  *)
(* table_features the sequence of the descriptors [table_id, name, config] *)
(* of its body (NULL, here <<>>, when the body is empty).  A reply is      *)
(* [type,                                                                  *)
(* flags, tables_num, tables, body]: tables the indices of pl->tables the  *)
(* handler read for it, body what it read there.                           *)

\* enum ofp_multipart_request_flags, ofp_multipart_reply_flags
OFPMPF_REQ_MORE == 1
OFPMPF_REPLY_MORE == 1

MULTIPART_BUFFER_OVERFLOW == "OFPET_BAD_REQUEST/OFPBRC_MULTIPART_BUFFER_OVERFLOW"

\* the process dies of a read through a pointer that is none
SIGSEGV == "SIGSEGV"

\* the controller connections of the model
RemoteIds == {"r1", "r2"}

\* remote->mp_req_msg == NULL
NoRequest == [null |-> TRUE, flags |-> 0, tables_num |-> 0, table_features |-> <<>>]

Request(flags, body) ==
    [null |-> FALSE, flags |-> flags, tables_num |-> Len(body), table_features |-> body]

\* ofl_msg_merge_multipart_request_table_features (oflib): the fragment's
\* descriptors are appended to the buffer's; "no more" is the fragment's
\* flag REQ_MORE being clear
ofl_msg_merge_multipart_request_table_features(orig, merge) ==
    [msg |-> [orig EXCEPT !.tables_num = @ + merge.tables_num,
                          !.table_features = @ \o merge.table_features],
     nomore |-> (merge.flags % 2) = 0]

\* the reassembly that hands on the last fragment in place of the buffer
ReassembleLastOnly(remote, msg, xid) ==
    IF ~remote.mp_req_msg.null
    THEN IF xid # remote.mp_req_xid
         THEN [error |-> MULTIPART_BUFFER_OVERFLOW, complete |-> FALSE, feat |-> msg,
               remote |-> remote]
         ELSE LET m == ofl_msg_merge_multipart_request_table_features(remote.mp_req_msg, msg)
              IN  [error |-> OK, complete |-> m.nomore, feat |-> msg,
                   remote |-> [remote EXCEPT !.mp_req_msg = m.msg]]
    ELSE IF (msg.flags % 2) = OFPMPF_REQ_MORE
         THEN LET saved_msg == Request(0, <<>>)
                  m == ofl_msg_merge_multipart_request_table_features(saved_msg, msg)
              IN  [error |-> OK, complete |-> FALSE, feat |-> msg,
                   remote |-> [mp_req_msg |-> m.msg, mp_req_xid |-> xid]]
         ELSE [error |-> OK, complete |-> TRUE, feat |-> msg, remote |-> remote]

(* "Check if we already received fragments of a multipart request" up to   *)
(* "Non fragmented request": the error returned, whether the request is    *)
(* complete, the request to use (feat) and the remote.                     *)
Reassemble(remote, msg, xid) ==
    IF ~remote.mp_req_msg.null
    THEN IF xid # remote.mp_req_xid
         THEN [error |-> MULTIPART_BUFFER_OVERFLOW, complete |-> FALSE, feat |-> msg,
               remote |-> remote]
         ELSE LET m == ofl_msg_merge_multipart_request_table_features(remote.mp_req_msg, msg)
              IN  [error |-> OK, complete |-> m.nomore, feat |-> m.msg,
                   remote |-> [remote EXCEPT !.mp_req_msg = m.msg]]
    ELSE IF (msg.flags % 2) = OFPMPF_REQ_MORE
         THEN LET saved_msg == Request(0, <<>>)
                  m == ofl_msg_merge_multipart_request_table_features(saved_msg, msg)
              IN  [error |-> OK, complete |-> FALSE, feat |-> msg,
                   remote |-> [mp_req_msg |-> m.msg, mp_req_xid |-> xid]]
         ELSE [error |-> OK, complete |-> TRUE, feat |-> msg, remote |-> remote]

\* "Change tables configuration": for(i = 0; i < feat->tables_num; i++)
RECURSIVE UpdateFeatures(_, _, _)
UpdateFeatures(feats, feat, i) ==
    IF feat.table_features = <<>> \/ ~(i <= feat.tables_num) THEN feats
    ELSE UpdateFeatures([feats EXCEPT ![feat.table_features[i].table_id] =
                                          feat.table_features[i]],
                        feat, i + 1)

\* the handler that leaves the reassembly buffer in place
CleanupNever(remote) == remote

\* "Cleanup request"
Cleanup(remote) ==
    IF ~remote.mp_req_msg.null
    THEN [mp_req_msg |-> NoRequest, mp_req_xid |-> 0]
    ELSE remote

\* what a read of pl->tables[j] beyond the array yields when it does not
\* end the process
OutOfBounds == [table_id |-> -1, name |-> "", config |-> -1]

Indices(j, k) == [i \in 1..k |-> j + i - 1]

Reply(type, flags, idx, body) ==
    [type |-> type, flags |-> flags, tables_num |-> Len(idx), tables |-> idx,
     body |-> body]

\* the reply loop that sets REPLY_MORE on every message
RECURSIVE FeaturesReplyLoopAlwaysMore(_, _, _, _, _)
FeaturesReplyLoopAlwaysMore(feats, n, j, oob, sent) ==
    LET idx == Indices(j, 8)
    IN  IF oob = "crash" /\ \E i \in 1..8 : ~(idx[i] < n)
        THEN [error |-> SIGSEGV, replies |-> sent]
        ELSE LET body == [i \in 1..8 |-> IF idx[i] < n THEN feats[idx[i]] ELSE OutOfBounds]
                 out == sent \o <<Reply("OFPMP_TABLE_FEATURES", OFPMPF_REPLY_MORE, idx, body)>>
             IN  IF j + 8 < n THEN FeaturesReplyLoopAlwaysMore(feats, n, j + 8, oob, out)
                 ELSE [error |-> OK, replies |-> out]

(* "Query for table capabilities": loop: ... goto loop, 8 tables a         *)
(* message.  oob is what a read beyond pl->tables does: it ends the        *)
(* process ("crash") or yields something ("garbage").                      *)
RECURSIVE FeaturesReplyLoop(_, _, _, _, _)
FeaturesReplyLoop(feats, n, j, oob, sent) ==
    LET idx == Indices(j, 8)
    IN  IF oob = "crash" /\ \E i \in 1..8 : ~(idx[i] < n)
        THEN [error |-> SIGSEGV, replies |-> sent]
        ELSE LET body == [i \in 1..8 |-> IF idx[i] < n THEN feats[idx[i]] ELSE OutOfBounds]
                 out == sent \o <<Reply("OFPMP_TABLE_FEATURES",
                                        IF j + 8 = n THEN 0 ELSE OFPMPF_REPLY_MORE,
                                        idx, body)>>
             IN  IF j + 8 < n THEN FeaturesReplyLoop(feats, n, j + 8, oob, out)
                 ELSE [error |-> OK, replies |-> out]

\* the handler without the test of the XID
pipeline_handle_stats_request_table_features_request_any_xid(feats, remote, msg, xid, n, oob) ==
    LET a == Reassemble([remote EXCEPT !.mp_req_xid = xid], msg, xid)
    IN  IF ~a.complete
        THEN [error |-> OK, features |-> feats, remote |-> a.remote, replies |-> <<>>]
        ELSE LET f1 == UpdateFeatures(feats, a.feat, 1)
                 rp == FeaturesReplyLoop(f1, n, 0, oob, <<>>)
             IN  [error |-> rp.error, features |-> f1, remote |-> Cleanup(a.remote),
                  replies |-> rp.replies]

pipeline_handle_stats_request_table_features_request(feats, remote, msg, xid, n, oob) ==
    LET a == Reassemble(remote, msg, xid)
    IN  IF a.error # OK
        THEN [error |-> a.error, features |-> feats, remote |-> remote, replies |-> <<>>]
        ELSE IF ~a.complete
        THEN [error |-> OK, features |-> feats, remote |-> a.remote, replies |-> <<>>]
        ELSE LET f1 == UpdateFeatures(feats, a.feat, 1)
                 rp == FeaturesReplyLoop(f1, n, 0, oob, <<>>)
             IN  [error |-> rp.error, features |-> f1, remote |-> Cleanup(a.remote),
                  replies |-> rp.replies]

----------------------------------------------------------------------------
(* pipeline_handle_stats_request_table_desc_request.  n is                 *)
(* PIPELINE_TABLES.                                                        *)

\* enum ofp_table_config
OFPTC_VACANCY_EVENTS == 8

\* desc[i]->config & OFPTC_VACANCY_EVENTS
HasVacancyEvents(cfg) == (cfg \div OFPTC_VACANCY_EVENTS) % 2 = 1

\* the descriptor sent as it is stored
UpdateVacancyNever(d, active_count) == d

\* "Update vacancy": for(pi = 0; pi < desc[i]->properties_num; pi++)
UpdateVacancy(d, active_count) ==
    [d EXCEPT !.properties =
        [pi \in DOMAIN d.properties |->
            IF HasVacancyEvents(d.config) /\ d.properties[pi].type = "OFPTMPT_VACANCY"
            THEN [d.properties[pi] EXCEPT !.vacancy =
                     ((FLOW_TABLE_MAX_ENTRIES - active_count) * 100)
                         \div FLOW_TABLE_MAX_ENTRIES]
            ELSE d.properties[pi]]]

\* what a read of pl->tables[j]->desc beyond the array yields when it does
\* not end the process
OutOfBoundsDesc == [config |-> -1, properties |-> <<>>]

\* the descriptors of tables j .. j+15 with the vacancy updated
DescChunk(ds, fl, n, j) ==
    [t \in DOMAIN ds |->
        IF j <= t /\ t < j + 16 /\ t < n
        THEN UpdateVacancy(ds[t], Cardinality(fl[t])) ELSE ds[t]]

\* the loop that sets REPLY_MORE on every message
RECURSIVE TableDescLoopAlwaysMore(_, _, _, _, _, _)
TableDescLoopAlwaysMore(ds, fl, n, j, oob, sent) ==
    LET idx == Indices(j, 16)
    IN  IF oob = "crash" /\ \E i \in 1..16 : ~(idx[i] < n)
        THEN [error |-> SIGSEGV, desc |-> ds, replies |-> sent]
        ELSE LET ds1 == DescChunk(ds, fl, n, j)
                 body == [i \in 1..16 |-> IF idx[i] < n THEN ds1[idx[i]]
                                          ELSE OutOfBoundsDesc]
                 out == sent \o <<Reply("OFPMP_TABLE_DESC", OFPMPF_REPLY_MORE, idx, body)>>
             IN  IF j + 16 < n THEN TableDescLoopAlwaysMore(ds1, fl, n, j + 16, oob, out)
                 ELSE [error |-> OK, desc |-> ds1, replies |-> out]

(* loop: ... goto loop, 16 tables a message.  oob is what a read beyond    *)
(* pl->tables does: it ends the process ("crash") or yields something      *)
(* ("garbage").                                                            *)
RECURSIVE TableDescLoop(_, _, _, _, _, _)
TableDescLoop(ds, fl, n, j, oob, sent) ==
    LET idx == Indices(j, 16)
    IN  IF oob = "crash" /\ \E i \in 1..16 : ~(idx[i] < n)
        THEN [error |-> SIGSEGV, desc |-> ds, replies |-> sent]
        ELSE LET ds1 == DescChunk(ds, fl, n, j)
                 body == [i \in 1..16 |-> IF idx[i] < n THEN ds1[idx[i]]
                                          ELSE OutOfBoundsDesc]
                 out == sent \o <<Reply("OFPMP_TABLE_DESC",
                                        IF j + 16 = n THEN 0 ELSE OFPMPF_REPLY_MORE,
                                        idx, body)>>
             IN  IF j + 16 < n THEN TableDescLoop(ds1, fl, n, j + 16, oob, out)
                 ELSE [error |-> OK, desc |-> ds1, replies |-> out]

pipeline_handle_stats_request_table_desc_request(ds, fl, n, oob) ==
    TableDescLoop(ds, fl, n, 0, oob, <<>>)

----------------------------------------------------------------------------
(* The calls pipeline_process_packet makes, in order (log).                *)

Ev == [ev |-> "", table |-> NO_TABLE, hit |-> FALSE, priority |-> 0, length |-> 0,
       inst |-> 0, cookie |-> 0, reason |-> "", dropped |-> FALSE, actions |-> {},
       buffer_id |-> NO_BUFFER, data_length |-> 0]
\* flow_table_lookup in table t and, on a hit, the priority, match length
\* and cookie of the entry it returned
EvLookup(t, hit, priority, length, cookie) ==
    [Ev EXCEPT !.ev = "flow_table_lookup", !.table = t, !.hit = hit,
               !.priority = priority, !.length = length, !.cookie = cookie]
EvInst(t, type) == [Ev EXCEPT !.ev = "instruction", !.table = t, !.inst = type]
EvDestroy == [Ev EXCEPT !.ev = "packet_destroy"]
EvActionSet(actions, cookie, reason) ==
    [Ev EXCEPT !.ev = "action_set_execute", !.actions = actions,
               !.cookie = cookie, !.reason = reason]
EvPacketIn(t, reason, cookie, buffer_id, data_length) ==
    [Ev EXCEPT !.ev = "packet_in", !.table = t, !.reason = reason, !.cookie = cookie,
               !.buffer_id = buffer_id, !.data_length = data_length]

Count(lg, ev) == Cardinality({i \in 1..Len(lg) : lg[i].ev = ev})

----------------------------------------------------------------------------
(* send_packet_to_controller and the buffer pool.                          *)

OFPCML_NO_BUFFER == 65535
\* pkt->buffer->size of the packets of the model
PacketSize == 200
OFPP_CONTROLLER == 253

MIN(a, b) == IF a < b THEN a ELSE b

\* dp_buffers_save: the packet takes a slot of the pool (a free one when
\* there is one) and the slot's id
dp_buffers_save(bufs, p) ==
    LET free == {id \in DOMAIN bufs : bufs[id].null}
        id == IF free # {} THEN CHOOSE x \in free : \A y \in free : x <= y ELSE 1
        saved == [p EXCEPT !.buffer_id = id]
    IN  [pkt |-> saved, buffers |-> [bufs EXCEPT ![id] = saved]]

\* st is [pkt, next_table, log, buffers]
send_packet_to_controller(st, cfg, table_id, reason) ==
    IF cfg.miss_send_len # OFPCML_NO_BUFFER
    THEN LET s == dp_buffers_save(st.buffers, st.pkt)
         IN  [st EXCEPT !.pkt = s.pkt, !.buffers = s.buffers,
                        !.log = @ \o <<EvPacketIn(table_id, reason, COOKIE_ALL_ONES,
                                                  s.pkt.buffer_id,
                                                  MIN(cfg.miss_send_len, PacketSize))>>]
    ELSE [st EXCEPT !.log = @ \o <<EvPacketIn(table_id, reason, COOKIE_ALL_ONES,
                                              NO_BUFFER, PacketSize)>>]

----------------------------------------------------------------------------
(* execute_entry.  st is [pc, pkt, next_table, log, buffers]; meter_drops  *)
(* is what meter_table_apply does to the packet.                           *)

\* is_table_miss that looks at the priority only
is_table_miss_priority_only(entry) ==
    entry.priority = 0

\* is_table_miss (pipeline.c)
is_table_miss(entry) ==
    entry.priority = 0 /\ entry.match.length <= 4

\* flow_entry_is_table_miss (flow_entry.c)
flow_entry_is_table_miss(entry) ==
    entry.priority = 0 /\ entry.match.length <= 4

(* dp_execute_action_list for the one output action of the model: an      *)
(* output to the controller port buffers the packet (when the datapath     *)
(* buffers at all) and sends a packet-in of its own.                       *)
dp_execute_action_list(st, cfg, port) ==
    IF port = OFPP_CONTROLLER /\ cfg.miss_send_len # OFPCML_NO_BUFFER
    THEN LET s == dp_buffers_save(st.buffers, st.pkt)
         IN  [st EXCEPT !.pkt = s.pkt, !.buffers = s.buffers]
    ELSE st

\* one case of the switch
ExecuteInstruction(entry, inst, st, cfg, meter_drops) ==
    LET ev == EvInst(st.pkt.table_id, inst.type)
    IN  CASE inst.type = OFPIT_GOTO_TABLE ->
                [st EXCEPT !.next_table = inst.a, !.log = @ \o <<ev>>]
          [] inst.type = OFPIT_WRITE_METADATA ->
                [st EXCEPT !.pkt.metadata =
                               (@ - BitAnd(@, inst.b)) + BitAnd(inst.a, inst.b),
                           !.log = @ \o <<ev>>]
          [] inst.type = OFPIT_WRITE_ACTIONS ->
                [st EXCEPT !.pkt.action_set = {inst.a}, !.log = @ \o <<ev>>]
          [] inst.type = OFPIT_APPLY_ACTIONS ->
                [dp_execute_action_list(st, cfg, inst.a) EXCEPT
                    !.log = @ \o <<[ev EXCEPT
                        !.actions = {inst.a},
                        !.cookie = entry.cookie,
                        !.reason = IF flow_entry_is_table_miss(entry)
                                   THEN "OFPR_TABLE_MISS" ELSE "OFPR_APPLY_ACTION"]>>]
          [] inst.type = OFPIT_CLEAR_ACTIONS ->
                [st EXCEPT !.pkt.action_set = {}, !.log = @ \o <<ev>>]
          [] inst.type = OFPIT_METER ->
                [st EXCEPT !.pkt.null = meter_drops,
                           !.log = @ \o <<[ev EXCEPT !.dropped = meter_drops]>>]
          [] OTHER -> st

\* the loop of execute_entry without "if(!(*pkt)) return"
RECURSIVE ExecuteFromNoNullCheck(_, _, _, _, _)
ExecuteFromNoNullCheck(entry, i, st, cfg, meter_drops) ==
    IF ~(i <= Len(entry.instructions)) THEN st
    ELSE ExecuteFromNoNullCheck(entry, i + 1,
                                ExecuteInstruction(entry, entry.instructions[i], st, cfg,
                                                   meter_drops),
                                cfg, meter_drops)

\* for (i=0; i < entry->stats->instructions_num; i++)
RECURSIVE ExecuteFrom(_, _, _, _, _)
ExecuteFrom(entry, i, st, cfg, meter_drops) ==
    IF ~(i <= Len(entry.instructions)) THEN st
    ELSE IF st.pkt.null THEN st
    ELSE ExecuteFrom(entry, i + 1,
                     ExecuteInstruction(entry, entry.instructions[i], st, cfg, meter_drops),
                     cfg, meter_drops)

execute_entry(entry, st, cfg, meter_drops) ==
    ExecuteFrom(entry, 1, st, cfg, meter_drops)

----------------------------------------------------------------------------
(* pipeline_process_packet.                                                *)

\* the invalid TTL branch sending to the controller whatever the flag is
TtlInvalidAlwaysPunts(st, cfg) ==
    [send_packet_to_controller(st, cfg, 0, "OFPR_INVALID_TTL") EXCEPT
        !.log = @ \o <<EvDestroy>>, !.pc = "done"]

\* the branch of a packet with an invalid TTL
TtlInvalid(st, cfg) ==
    LET s == IF cfg.invalid_ttl_to_controller
             THEN send_packet_to_controller(st, cfg, 0, "OFPR_INVALID_TTL")
             ELSE st
    IN  [s EXCEPT !.log = @ \o <<EvDestroy>>, !.pc = "done"]

\* from the call to the head of the while loop
ProcessPacketEntry(p, cfg, bufs) ==
    LET st == [pc |-> "loop", pkt |-> p, next_table |-> NO_TABLE, log |-> <<>>,
               buffers |-> bufs]
    IN  IF ~p.ttl_valid THEN TtlInvalid(st, cfg)
        ELSE [st EXCEPT !.next_table = 0]

\* a table miss that sends the packet to the controller before dropping it
TableMissToController(st) ==
    [st EXCEPT !.log = @ \o <<EvPacketIn(st.pkt.table_id, "OFPR_TABLE_MISS",
                                         COOKIE_ALL_ONES, NO_BUFFER, PacketSize),
                              EvDestroy>>,
               !.pc = "done"]

\* entry == NULL: "OpenFlow 1.3 default behavior on a table miss"
TableMiss(st) ==
    [st EXCEPT !.log = @ \o <<EvDestroy>>, !.pc = "done"]

\* the driver after execute_entry without "if (!pkt) return"
AfterExecuteNoNullCheck(st) ==
    IF st.next_table = NO_TABLE
    THEN [st EXCEPT !.log = @ \o <<EvActionSet(st.pkt.action_set, COOKIE_ALL_ONES,
                                               "OFPR_ACTION_SET"),
                                   EvDestroy>>,
                    !.pc = "done"]
    ELSE st

\* after execute_entry
AfterExecute(st) ==
    IF st.pkt.null THEN [st EXCEPT !.pc = "done"]
    ELSE IF st.next_table = NO_TABLE
         THEN [st EXCEPT !.log = @ \o <<EvActionSet(st.pkt.action_set, COOKIE_ALL_ONES,
                                                    "OFPR_ACTION_SET"),
                                        EvDestroy>>,
                         !.pc = "done"]
         ELSE st

\* entry == NULL
NoEntry ==
    [priority |-> -1, match |-> MatchOf({}), instructions |-> <<>>, cookie |-> 0,
     sync_master |-> NullRef, sync_slave |-> NullRef]

\* what flow_table_lookup can return for the packet in the table
Lookup(fl, st) ==
    LET hits == flow_table_lookup(fl[st.next_table],
                                  [st.pkt EXCEPT !.table_id = st.next_table])
    IN  IF hits = {} THEN {NoEntry} ELSE hits

\* the pass that leaves the packet's table_id as it was
IterationKeepsTableId(st, cfg, entry, meter_drops) ==
    LET table == st.next_table
        s1 == [st EXCEPT !.next_table = NO_TABLE,
                         !.log = @ \o <<EvLookup(table, entry # NoEntry, entry.priority,
                                                  entry.match.length, entry.cookie)>>]
    IN  IF entry # NoEntry
        THEN AfterExecute(
                execute_entry(entry,
                              [s1 EXCEPT !.pkt.table_miss = is_table_miss(entry)],
                              cfg, meter_drops))
        ELSE TableMiss(s1)

\* one pass of the body of while (next_table != NULL), entry being what
\* flow_table_lookup returned
Iteration(st, cfg, entry, meter_drops) ==
    LET table == st.next_table
        s1 == [st EXCEPT !.pkt.table_id = table, !.next_table = NO_TABLE,
                         !.log = @ \o <<EvLookup(table, entry # NoEntry, entry.priority,
                                                  entry.match.length, entry.cookie)>>]
    IN  IF entry # NoEntry
        THEN AfterExecute(
                execute_entry(entry,
                              [s1 EXCEPT !.pkt.table_miss = is_table_miss(entry)],
                              cfg, meter_drops))
        ELSE TableMiss(s1)

----------------------------------------------------------------------------
(* Messages and what arrives with them.  An input is [kind, role, msg,     *)
(* ext, handled]: the handler called, the sender's role, the message, and  *)
(* what the collaborators answer during the call.                          *)

Msg(table_id, command, priority, match, instructions, buffer_id, cookie, cfg, props) ==
    [table_id |-> table_id, command |-> command, priority |-> priority,
     match |-> match, instructions |-> instructions, buffer_id |-> buffer_id,
     cookie |-> cookie, config |-> cfg, props |-> props]

FlowModMsg(table_id, command, priority, match, instructions, buffer_id, cookie) ==
    Msg(table_id, command, priority, match, instructions, buffer_id, cookie, 0, <<>>)

TableModMsg(table_id, cfg, props) ==
    Msg(table_id, "", 0, MatchOf({}), <<>>, NO_BUFFER, 0, cfg, props)

Ext(validate_err, fail_table, clone_err) ==
    [validate_err |-> validate_err, fail_table |-> fail_table, clone_err |-> clone_err]

NoExt == Ext(OK, NO_TABLE, FALSE)

Input(kind, role, msg, ext) ==
    [kind |-> kind, role |-> role, msg |-> msg, ext |-> ext,
     wire |-> msg.instructions, handled |-> FALSE]

NoInput == [Input("", "", TableModMsg(0, 0, <<>>), NoExt) EXCEPT !.handled = TRUE]

FlowCount(fl) == Cardinality(UNION {{<<t, e>> : e \in fl[t]} : t \in TableIds})

Idle == pc \in {"idle", "done"}

----------------------------------------------------------------------------
(* The steps of the program. *)

\* the controller's flow-mod `in` is handled by pipeline_handle_flow_mod, up
\* to its return or to its call of pipeline_process_packet
HandleFlowMod(in) ==
    /\ Idle
    /\ in.kind = "flow_mod"
    /\ \E r \in {pipeline_handle_flow_mod(flows, buffers, in.msg, in.role, in.ext,
                                          libc_qsort)} :
        \E st \in {IF r.replay.null
                   THEN [pc |-> "idle", pkt |-> NoPkt, next_table |-> NO_TABLE,
                         log |-> <<>>, buffers |-> r.buffers]
                   ELSE ProcessPacketEntry(r.replay, config, r.buffers)} :
            /\ (r.flows = flows \/ FlowCount(r.flows) <= MaxFlows)
            /\ flows' = r.flows
            /\ pc' = st.pc
            /\ pkt' = st.pkt
            /\ next_table' = st.next_table
            /\ log' = st.log
            /\ buffers' = st.buffers
            /\ call' = [op |-> "flow_mod", role |-> in.role]
            /\ ret' = IF st.pc = "loop" THEN "running" ELSE r.ret
            /\ inbox' = [in EXCEPT !.handled = TRUE, !.msg.instructions = r.instructions]
    /\ UNCHANGED <<desc, features, config, libc_qsort>>
    /\ UNCHANGED mp_vars

\* the controller's table-mod `in` is handled by pipeline_handle_table_mod
HandleTableMod(in) ==
    /\ Idle
    /\ in.kind = "table_mod"
    /\ \E r \in {pipeline_handle_table_mod(desc, flows, in.msg, in.role)} :
            /\ desc' = r.desc
            /\ ret' = r.error
    /\ pc' = "idle"
    /\ pkt' = NoPkt
    /\ next_table' = NO_TABLE
    /\ log' = <<>>
    /\ call' = [op |-> "table_mod", role |-> in.role]
    /\ inbox' = [in EXCEPT !.handled = TRUE]
    /\ UNCHANGED <<flows, features, config, libc_qsort, buffers>>
    /\ UNCHANGED mp_vars

\* the datapath hands packet p to pipeline_process_packet
ProcessPacket(p) ==
    /\ Idle
    /\ \E st \in {ProcessPacketEntry(p, config, buffers)} :
            /\ pc' = st.pc
            /\ pkt' = st.pkt
            /\ next_table' = st.next_table
            /\ log' = st.log
            /\ buffers' = st.buffers
    /\ call' = [op |-> "process_packet", role |-> ""]
    /\ ret' = "void"
    /\ UNCHANGED <<flows, desc, features, config, libc_qsort, inbox>>
    /\ UNCHANGED mp_vars

\* one pass of the while loop of pipeline_process_packet; when the call was
\* made by pipeline_handle_flow_mod, the handler frees the message and
\* returns 0 after it
PipelineStep ==
    /\ pc = "loop"
    /\ Count(log, "flow_table_lookup") < MaxLookups
    /\ \E entry \in Lookup(flows, [pkt |-> pkt, next_table |-> next_table]),
          meter_drops \in BOOLEAN :
          \E st \in {Iteration([pc |-> pc, pkt |-> pkt, next_table |-> next_table,
                                log |-> log, buffers |-> buffers],
                               config, entry, meter_drops)} :
              /\ pc' = st.pc
              /\ pkt' = st.pkt
              /\ next_table' = st.next_table
              /\ log' = st.log
              /\ buffers' = st.buffers
              /\ ret' = IF st.pc = "done" /\ call.op = "flow_mod" THEN OK ELSE ret
    /\ UNCHANGED <<flows, desc, features, config, libc_qsort, call, inbox>>
    /\ UNCHANGED mp_vars

\* the process has not died
Alive == ret # SIGSEGV

\* a handler that runs no packet through the pipeline has returned
NoPacketCall(op, role, in) ==
    /\ pc' = "idle"
    /\ pkt' = NoPkt
    /\ next_table' = NO_TABLE
    /\ log' = <<>>
    /\ call' = [op |-> op, role |-> role]
    /\ inbox' = in

(* A table-features request is the input [kind, role, remote, xid, msg,    *)
(* fragments, handled]: the sender's role, remote and xid, the request,    *)
(* and, once handled, the number of fragments received of the request it   *)
(* is part of.                                                             *)
FeaturesInput(role, remote, xid, msg) ==
    [kind |-> "table_features", role |-> role, remote |-> remote, xid |-> xid,
     msg |-> msg, fragments |-> 0, handled |-> FALSE]

\* what a read beyond pl->tables can do
OutOfBoundsReads == {"crash", "garbage"}

\* most fragments a pending request is sent in
MaxFragments == 2

\* the remote's table-features request `in` is handled, a read beyond
\* pl->tables doing oob
HandleTableFeatures(in, oob) ==
    /\ Idle /\ Alive
    /\ in.kind = "table_features"
    /\ \E r \in {pipeline_handle_stats_request_table_features_request(
                     features, remotes[in.remote], in.msg, in.xid, pipeline_tables,
                     oob)} :
          /\ features' = r.features
          /\ remotes' = [remotes EXCEPT ![in.remote] = r.remote]
          /\ replies' = r.replies
          /\ ret' = r.error
          /\ frags' = IF r.error = MULTIPART_BUFFER_OVERFLOW THEN frags
                      ELSE IF r.remote.mp_req_msg.null
                      THEN [frags EXCEPT ![in.remote] = <<>>]
                      ELSE [frags EXCEPT ![in.remote] = @ \o <<in.msg.table_features>>]
          /\ Len(frags'[in.remote]) <= MaxFragments
    /\ NoPacketCall("table_features", in.role,
                    [in EXCEPT !.handled = TRUE,
                               !.fragments = IF ret' = MULTIPART_BUFFER_OVERFLOW THEN 0
                                             ELSE Len(frags[in.remote]) + 1])
    /\ UNCHANGED <<flows, desc, config, libc_qsort, buffers, saved_features,
                   pipeline_tables>>

\* a table-desc request is handled, a read beyond pl->tables doing oob
HandleTableDesc(role, oob) ==
    /\ Idle /\ Alive
    /\ \E r \in {pipeline_handle_stats_request_table_desc_request(
                     desc, flows, pipeline_tables, oob)} :
          /\ desc' = r.desc
          /\ replies' = r.replies
          /\ ret' = r.error
    /\ NoPacketCall("table_desc", role, inbox)
    /\ UNCHANGED <<flows, features, config, libc_qsort, buffers, saved_features,
                   remotes, pipeline_tables, frags>>

HandleFeaturesSave ==
    /\ Idle /\ Alive
    /\ saved_features' =
          pipeline_handle_table_features_save(features, saved_features, pipeline_tables)
    /\ ret' = OK
    /\ replies' = <<>>
    /\ NoPacketCall("table_features_save", "", inbox)
    /\ UNCHANGED <<flows, desc, features, config, libc_qsort, buffers, remotes,
                   pipeline_tables, frags>>

HandleFeaturesRestore ==
    /\ Idle /\ Alive
    /\ features' =
          pipeline_handle_table_features_restore(features, saved_features, pipeline_tables)
    /\ ret' = OK
    /\ replies' = <<>>
    /\ NoPacketCall("table_features_restore", "", inbox)
    /\ UNCHANGED <<flows, desc, config, libc_qsort, buffers, saved_features, remotes,
                   pipeline_tables, frags>>

----------------------------------------------------------------------------
(* The state after pipeline_create, for a datapath configuration among     *)
(* cfgs, a libc among impls and a message in flight among inputs.          *)

Configs ==
    {[invalid_ttl_to_controller |-> TRUE, miss_send_len |-> 128],
     [invalid_ttl_to_controller |-> FALSE, miss_send_len |-> OFPCML_NO_BUFFER]}

\* the state after pipeline_create of a build with n tables
InitBuild(n, cfgs, impls, inputs) ==
    /\ flows = [t \in 0 .. (n - 1) |-> {}]
    /\ desc = [t \in 0 .. (n - 1) |-> [config |-> 0, properties |-> <<VacancyProp(0, 0)>>]]
    /\ features = [t \in 0 .. (n - 1) |-> [table_id |-> t, name |-> "table", config |-> 0]]
    /\ config \in cfgs
    /\ libc_qsort \in impls
    /\ buffers = [id \in 1..MaxBuffers |-> NoPkt]
    /\ pc = "idle"
    /\ pkt = NoPkt
    /\ next_table = NO_TABLE
    /\ log = <<>>
    /\ call = [op |-> "none", role |-> ""]
    /\ ret = "none"
    /\ inbox \in inputs
    /\ saved_features = [t \in 0 .. (n - 1) |-> [config |-> 0]]
    /\ remotes = [r \in RemoteIds |-> [mp_req_msg |-> NoRequest, mp_req_xid |-> 0]]
    /\ replies = <<>>
    /\ pipeline_tables = n
    /\ frags = [r \in RemoteIds |-> <<>>]

InitWith(cfgs, impls, inputs) == InitBuild(PIPELINE_TABLES, cfgs, impls, inputs)

----------------------------------------------------------------------------
(* Spec: packets through a pipeline whose tables 0 and 1 the controller    *)
(* fills.                                                                  *)

Add(t, priority, match, insts, buffer_id) ==
    Input("flow_mod", "OFPCR_ROLE_MASTER",
          FlowModMsg(t, "OFPFC_ADD", priority, match, insts, buffer_id, 7 + t), NoExt)

Delete(role, t) ==
    Input("flow_mod", role,
          FlowModMsg(t, "OFPFC_DELETE", 0, MatchOf({}), <<>>, NO_BUFFER, 0), NoExt)

AnyPkt == MatchOf({})
ToMacA == MatchOf({Tlv("OXM_OF_ETH_DST", MacA)})
IsTcp == MatchOf({Tlv("OXM_OF_IP_PROTO", Tcp)})

SpecFlowMods ==
    {Add(0, 1, AnyPkt, <<GotoTable(1), WriteActions(3)>>, NO_BUFFER),
     Add(0, 1, AnyPkt, <<GotoTable(1), WriteActions(3)>>, 1),
     Add(0, 1, ToMacA, <<GotoTable(1), ApplyActions(2), Meter(1)>>, NO_BUFFER),
     Add(0, 1, AnyPkt, <<ClearActions, ApplyActions(2)>>, NO_BUFFER),
     Add(0, 1, ToMacA, <<WriteMetadata(1, 1), GotoTable(0)>>, NO_BUFFER),
     Add(0, 0, AnyPkt, <<ApplyActions(OFPP_CONTROLLER)>>, NO_BUFFER),
     Add(0, 0, IsTcp, <<ApplyActions(2)>>, NO_BUFFER),
     Add(1, 1, AnyPkt, <<ApplyActions(2), Meter(1)>>, NO_BUFFER),
     Delete("OFPCR_ROLE_MASTER", 0)}

SpecTableMods ==
    {Input("table_mod", "OFPCR_ROLE_MASTER", TableModMsg(ALL_TABLES, cfg, <<>>), NoExt) :
        cfg \in {OFPTC_VACANCY_EVENTS}}

Packets ==
    {Packet(TRUE, MacB, MacA, IpA), Packet(TRUE, MacB, MacB, IpA),
     Packet(FALSE, MacB, MacA, IpA)}

Init == InitWith(Configs, QsortImpls, {NoInput})

FlowMod == \E in \in SpecFlowMods : HandleFlowMod(in)

TableMod == \E in \in SpecTableMods : HandleTableMod(in)

PacketArrives == \E p \in Packets : ProcessPacket(p)

Next == FlowMod \/ TableMod \/ PacketArrives \/ PipelineStep

Spec == Init /\ [][Next]_vars

----------------------------------------------------------------------------
(* What the log of a pipeline_process_packet call says.                    *)

Events(ev) == {i \in 1..Len(log) : log[i].ev = ev}

\* the packet's ends: packet_destroy, or a meter that consumed it
Dispositions ==
    Events("packet_destroy") \cup {i \in Events("instruction") : log[i].dropped}

CallReturned == pc = "done"

\* the last lookup before position i of the log (0: none)
LookupBefore(i) ==
    LET before == {j \in Events("flow_table_lookup") : j < i}
    IN  IF before = {} THEN 0 ELSE CHOOSE j \in before : \A k \in before : k <= j

\* C1: when pipeline_process_packet returns for a packet with a valid TTL,
\* the packet met exactly one end, which is the last thing the call did: a
\* packet_destroy after a lookup miss, a meter that consumed it, or one
\* action_set_execute followed at once by packet_destroy.
C1_ExactlyOneDisposition ==
    (CallReturned /\ pkt.ttl_valid) =>
        /\ Cardinality(Dispositions) = 1
        /\ Len(log) \in Dispositions
        /\ Cardinality(Events("action_set_execute")) <= 1
        /\ \A i \in Events("action_set_execute") :
                i = Len(log) - 1 /\ log[Len(log)].ev = "packet_destroy"
        /\ \/ log[Len(log)].ev = "instruction" /\ log[Len(log)].inst = OFPIT_METER
           \/ /\ log[Len(log)].ev = "packet_destroy"
              /\ log[Len(log) - 1].ev = "flow_table_lookup"
              /\ ~log[Len(log) - 1].hit
           \/ /\ log[Len(log)].ev = "packet_destroy"
              /\ log[Len(log) - 1].ev = "action_set_execute"

\* a returned call that went through two tables and ended with the action
\* set, and one a meter ended
C1_Witness ==
    /\ CallReturned /\ pkt.ttl_valid /\ ~pkt.null
    /\ Cardinality(Events("flow_table_lookup")) = 2
    /\ Events("action_set_execute") # {}
    /\ pkt.action_set # {}

\* C3: for a packet whose TTL is invalid the call looks up no table, runs
\* no instruction and does not execute the action set; it sends one
\* packet-in (reason INVALID_TTL, table 0, cookie all ones) when the flag
\* INVALID_TTL_TO_CONTROLLER is set and none when it is not, and destroys
\* the packet once, as the last thing it does.
C3_InvalidTtl ==
    (CallReturned /\ ~pkt.ttl_valid) =>
        /\ Events("flow_table_lookup") = {}
        /\ Events("instruction") = {}
        /\ Events("action_set_execute") = {}
        /\ Events("packet_destroy") = {Len(log)}
        /\ Cardinality(Events("packet_in")) =
               (IF config.invalid_ttl_to_controller THEN 1 ELSE 0)
        /\ \A i \in Events("packet_in") :
               /\ log[i].reason = "OFPR_INVALID_TTL"
               /\ log[i].table = 0
               /\ log[i].cookie = COOKIE_ALL_ONES

\* a packet with an invalid TTL dropped silently although table 0 holds an
\* entry that matches it
C3_Witness ==
    /\ CallReturned /\ ~pkt.ttl_valid /\ ~pkt.null
    /\ ~config.invalid_ttl_to_controller
    /\ \E e \in flows[0] : EntryMatches(e, pkt)
    /\ log = <<EvDestroy>>

\* C4: when a lookup returns no entry the call ends there: the next and
\* last thing it does is packet_destroy, it sent no packet-in and did not
\* execute the action set, whatever the table's config and the action set
\* are.
C4_MissDrops ==
    \A i \in Events("flow_table_lookup") :
        ~log[i].hit =>
            /\ CallReturned
            /\ Len(log) = i + 1
            /\ log[i + 1].ev = "packet_destroy"
            /\ Events("packet_destroy") = {i + 1}
            /\ Events("packet_in") = {}
            /\ Events("action_set_execute") = {}

\* a miss in table 1, reached through Goto-Table with an action written by
\* table 0 in the action set, the tables' config being set
C4_Witness ==
    /\ CallReturned /\ pkt.ttl_valid
    /\ \E i \in Events("flow_table_lookup") : ~log[i].hit /\ log[i].table = 1
    /\ pkt.action_set # {}
    /\ desc[1].config = OFPTC_VACANCY_EVENTS

\* C5: after a lookup that returned entry e, the packet's table_miss flag
\* is true exactly when e's priority is 0 and e's match length is at most
\* 4; an Apply-Actions instruction of e runs with reason TABLE_MISS exactly
\* then and with APPLY_ACTION otherwise, and with e's cookie.
C5_TableMissFlagAndReason ==
    /\ \A i \in Events("flow_table_lookup") :
          (log[i].hit /\ \A j \in Events("flow_table_lookup") : j <= i) =>
              (pkt.table_miss <=> (log[i].priority = 0 /\ log[i].length <= 4))
    /\ \A i \in Events("instruction") :
          log[i].inst = OFPIT_APPLY_ACTIONS =>
              /\ log[i].reason =
                    (IF /\ log[LookupBefore(i)].priority = 0
                        /\ log[LookupBefore(i)].length <= 4
                     THEN "OFPR_TABLE_MISS" ELSE "OFPR_APPLY_ACTION")
              /\ log[i].cookie = log[LookupBefore(i)].cookie

\* Apply-Actions of an entry of priority 0 whose match is not empty: no
\* table miss
C5_Witness ==
    \E i \in Events("instruction") :
        /\ log[i].inst = OFPIT_APPLY_ACTIONS
        /\ log[LookupBefore(i)].priority = 0
        /\ log[LookupBefore(i)].length > 4
        /\ log[i].reason = "OFPR_APPLY_ACTION"
        /\ ~pkt.table_miss

\* C6: a Meter instruction that drops the packet is the last thing the
\* call does: no later instruction of the entry runs, no table is looked up
\* after it, the action set is not executed and the packet is not
\* destroyed again; the call has returned.
C6_MeterDropEnds ==
    \A i \in Events("instruction") :
        log[i].dropped =>
            /\ CallReturned
            /\ i = Len(log)
            /\ Events("action_set_execute") = {}
            /\ Events("packet_destroy") = {}

\* a meter dropped the packet of an entry that also holds Apply-Actions and
\* Goto-Table, sorted behind the Meter
C6_Witness ==
    \E i \in Events("instruction") :
        /\ log[i].dropped
        /\ log[i - 1].ev = "flow_table_lookup"
        /\ \E e \in flows[log[i].table] :
              /\ Len(e.instructions) = 3
              /\ e.instructions[1].type = OFPIT_METER
              /\ e.instructions[3].type = OFPIT_GOTO_TABLE
              /\ EntryMatches(e, pkt)

----------------------------------------------------------------------------
(* Specifications of one call: the message in flight (inbox) is drawn at   *)
(* start-up and handed to pipeline_handle_flow_mod.                        *)

Deliver == ~inbox.handled /\ HandleFlowMod(inbox)

Buffering == [invalid_ttl_to_controller |-> TRUE, miss_send_len |-> 128]

(* SortSpec: an ADD whose instructions are one of each type of a subset of *)
(* the six types, in every wire order.                                     *)

RECURSIVE Perms(_)
Perms(S) ==
    IF S = {} THEN {<<>>}
    ELSE UNION {{<<x>> \o q : q \in Perms(S \ {x})} : x \in S}

OneOfEach ==
    {GotoTable(1), WriteMetadata(1, 1), WriteActions(3), ApplyActions(2),
     ClearActions, Meter(1)}

WireOrders == UNION {Perms(S) : S \in SUBSET OneOfEach}

SortInputs == {Add(0, 1, AnyPkt, w, NO_BUFFER) : w \in WireOrders}

SortInit == InitWith({Buffering}, QsortImpls, SortInputs)

SortNext == Deliver

SortSpec == SortInit /\ [][SortNext]_vars

\* the place of an instruction type in the order execute_entry documents
Rank(type) == CHOOSE k \in 1..Len(CanonicalTypes) : CanonicalTypes[k] = type

InCanonicalOrder(insts) ==
    \A i, j \in 1..Len(insts) : i < j => Rank(insts[i].type) < Rank(insts[j].type)

C2_CanonicalWithMergeSort ==
    (inbox.handled /\ ret = OK /\ libc_qsort = "merge") =>
        /\ InCanonicalOrder(inbox.msg.instructions)
        /\ \A e \in flows[0] : InCanonicalOrder(e.instructions)

\* all six instructions, sent in the reverse of the canonical order, stored
\* in the canonical order by the merge sort
C2_MergeSortWitness ==
    /\ inbox.handled /\ ret = OK /\ libc_qsort = "merge"
    /\ inbox.wire = <<GotoTable(1), WriteMetadata(1, 1), WriteActions(3), ClearActions,
                      ApplyActions(2), Meter(1)>>
    /\ \E e \in flows[0] : Len(e.instructions) = 6 /\ InCanonicalOrder(e.instructions)

----------------------------------------------------------------------------
(* LpmSpec: an ADD into table 61 ("Longuest Prefix Match") for masks and   *)
(* priorities of every kind.                                               *)

\* priorities 0 .. MaxPriority are tried
MaxPriority == 33

\* the mask whose one bits are the bits of S (bit 0 the least significant),
\* as four bytes, most significant first
ByteOfBits(S, k) ==
    LET b(j) == IF (8 * (4 - k) + j) \in S THEN 2 ^ j ELSE 0
    IN  b(0) + b(1) + b(2) + b(3) + b(4) + b(5) + b(6) + b(7)

MaskOfBits(S) == <<ByteOfBits(S, 1), ByteOfBits(S, 2), ByteOfBits(S, 3), ByteOfBits(S, 4)>>

\* one run of one bits, anywhere in the word (the prefix masks and 0 among
\* them), and two runs with their ends on the corners of the bytes
Masks ==
    {MaskOfBits(lo .. hi) : lo \in 0..32, hi \in 0..31}
    \cup
    {MaskOfBits((a .. b) \cup (c .. d)) :
        a \in {0, 8, 16}, b \in {1, 7, 15}, c \in {9, 17, 24}, d \in {23, 30, 31}}

ToIpA == MatchOf({Tlv("OXM_OF_IPV4_DST", IpA)})

ToSubnet(mask) == MatchOf({Tlv("OXM_OF_IPV4_DST_W", IpA \o mask)})

ToSubnetOfMacA(mask) ==
    MatchOf({Tlv("OXM_OF_IPV4_DST_W", IpA \o mask), Tlv("OXM_OF_ETH_DST", MacA)})

LpmInputs ==
    {Add(LPM_TABLE, priority, ToSubnet(mask), <<>>, NO_BUFFER) :
        priority \in 0..MaxPriority, mask \in Masks}
    \cup
    {Add(t, priority, match, <<GotoTable(62)>>, NO_BUFFER) :
        t \in {LPM_TABLE, LPM_TABLE - 1},
        priority \in 0..MaxPriority,
        match \in {ToIpA, AnyPkt, ToMacA, ToSubnetOfMacA(<<255, 0, 255, 0>>),
                   ToSubnetOfMacA(<<255, 255, 255, 0>>)}}

LpmInit == InitWith({Buffering}, {"merge"}, LpmInputs)

LpmNext == Deliver

LpmSpec == LpmInit /\ [][LpmNext]_vars

\* bit i of a mask of four bytes (bit 0 the least significant)
Bit(mask, i) == (mask[4 - (i \div 8)] \div (2 ^ (i % 8))) % 2

\* 1*0* read from the most significant bit: above a one bit are one bits
IsPrefixMask(mask) == \A i \in 0..30 : Bit(mask, i) = 1 => Bit(mask, i + 1) = 1

PrefixLength(mask) == Cardinality({i \in 0..31 : Bit(mask, i) = 1})

Fields(msg, header) == {f \in msg.match.match_fields : f.header = header}

NoFlows == [t \in TableIds |-> {}]

\* the handler has returned from an ADD into table 61
LpmAddHandled ==
    /\ inbox.handled
    /\ inbox.msg.table_id = LPM_TABLE
    /\ inbox.msg.command = "OFPFC_ADD"

\* C8: an ADD into table 61 whose match holds a masked IPV4_DST is
\* answered BAD_MATCH/BAD_NW_ADDR_MASK exactly when the mask is not of the
\* form 1*0* read from the most significant bit, whatever the priority is.
C8_MaskCheck ==
    LpmAddHandled =>
        \A f \in Fields(inbox.msg, "OXM_OF_IPV4_DST_W") :
            (ret = BAD_NW_ADDR_MASK) <=> ~IsPrefixMask(SubSeq(f.value, 5, 8))

\* mask 0xFF00FF00 with priority 16 is rejected
C8_Witness ==
    /\ LpmAddHandled
    /\ inbox.msg.match = ToSubnet(<<255, 0, 255, 0>>)
    /\ inbox.msg.priority = 16
    /\ ret = BAD_NW_ADDR_MASK

\* C9: an ADD into table 61 with a masked IPV4_DST whose mask is a prefix
\* mask succeeds exactly when the priority is the prefix length, one with an
\* exact IPV4_DST exactly when the priority is 32; otherwise it is answered
\* FLOW_MOD_FAILED/BAD_PRIORITY and no table is modified.
C9_PriorityCheck ==
    LpmAddHandled =>
        /\ \A f \in Fields(inbox.msg, "OXM_OF_IPV4_DST_W") :
              IsPrefixMask(SubSeq(f.value, 5, 8)) =>
                  /\ (ret = OK) <=> (inbox.msg.priority = PrefixLength(SubSeq(f.value, 5, 8)))
                  /\ ret \in {OK, BAD_PRIORITY}
        /\ \A f \in Fields(inbox.msg, "OXM_OF_IPV4_DST") :
              /\ (ret = OK) <=> (inbox.msg.priority = 32)
              /\ ret \in {OK, BAD_PRIORITY}
        /\ (ret = BAD_PRIORITY) => (flows = NoFlows)
        /\ (ret = OK) => (flows[LPM_TABLE] # {})

\* mask 0xFFFFFF00 with priority 24 is installed
C9_Witness ==
    /\ LpmAddHandled
    /\ inbox.msg.match = ToSubnet(<<255, 255, 255, 0>>)
    /\ inbox.msg.priority = 24
    /\ ret = OK
    /\ flows[LPM_TABLE] # {}

----------------------------------------------------------------------------
(* ModSpec: flow-mods and table-mods of senders of every role, for a       *)
(* pipeline that holds entries and a buffered packet.                      *)

Unsorted == <<GotoTable(1), ApplyActions(2)>>

Invalid == Ext(BAD_ACTION, NO_TABLE, FALSE)

FlowModOf(role, t, command, match, insts, ext) ==
    Input("flow_mod", role, FlowModMsg(t, command, 1, match, insts, 1, 9), ext)

ModFlowMods ==
    {FlowModOf("OFPCR_ROLE_SLAVE", t, command, AnyPkt, Unsorted, NoExt) :
        t \in {0, ALL_TABLES}, command \in {"OFPFC_ADD", "OFPFC_MODIFY", "OFPFC_DELETE"}}
    \cup
    {FlowModOf("OFPCR_ROLE_MASTER", ALL_TABLES, command, AnyPkt, insts, ext) :
        command \in {"OFPFC_ADD", "OFPFC_MODIFY", "OFPFC_MODIFY_STRICT"},
        insts \in {Unsorted, <<GotoTable(1)>>},
        ext \in {NoExt, Invalid}}
    \cup
    {FlowModOf("OFPCR_ROLE_EQUAL", ALL_TABLES, "OFPFC_ADD", AnyPkt, Unsorted, ext) :
        ext \in {NoExt, Invalid}}
    \cup
    {FlowModOf("OFPCR_ROLE_MASTER", 0, "OFPFC_ADD", AnyPkt, insts, NoExt) :
        insts \in {Unsorted, <<GotoTable(1)>>}}
    \cup
    {FlowModOf("OFPCR_ROLE_MASTER", 0, "OFPFC_ADD", ToMacA, Unsorted, NoExt)}
    \cup
    {FlowModOf("OFPCR_ROLE_MASTER", SYNC_MASTER_TABLE, "OFPFC_ADD", ToMacA, Unsorted, NoExt),
     FlowModOf("OFPCR_ROLE_MASTER", 0, "OFPFC_MODIFY", AnyPkt, <<>>, NoExt),
     FlowModOf("OFPCR_ROLE_MASTER", 0, "OFPFC_DELETE_STRICT", ToMacA, <<>>, NoExt),
     FlowModOf("OFPCR_ROLE_EQUAL", ALL_TABLES, "OFPFC_DELETE", AnyPkt, <<>>, NoExt)}

ModTableMods ==
    {Input("table_mod", role, TableModMsg(ALL_TABLES, cfg_props[1], cfg_props[2]), NoExt) :
        role \in {"OFPCR_ROLE_MASTER", "OFPCR_ROLE_SLAVE"},
        cfg_props \in {<<OFPTC_VACANCY_EVENTS, <<VacancyProp(10, 20)>>>>,
                       <<0, <<VacancyProp(30, 20)>>>>}}
    \cup
    {Input("table_mod", "OFPCR_ROLE_SLAVE", TableModMsg(0, OFPTC_VACANCY_EVENTS, <<>>), NoExt),
     Input("table_mod", "OFPCR_ROLE_EQUAL", TableModMsg(0, OFPTC_VACANCY_EVENTS, <<>>), NoExt)}

ModInit == InitWith({Buffering}, QsortImpls, {NoInput})

ModFlowMod == \E in \in ModFlowMods : HandleFlowMod(in)

ModTableMod == \E in \in ModTableMods : HandleTableMod(in)

\* a packet with an invalid TTL, which send_packet_to_controller buffers
ModPacket == ProcessPacket(Packet(FALSE, MacB, MacA, IpA))

ModNext == ModFlowMod \/ ModTableMod \/ ModPacket

ModSpec == ModInit /\ [][ModNext]_vars

\* the step is a call of pipeline_handle_flow_mod or pipeline_handle_table_mod
HandlerCall == pc # "loop" /\ call'.op \in {"flow_mod", "table_mod"}

\* C7: a flow-mod or table-mod of a sender whose role is SLAVE returns
\* BAD_REQUEST/IS_SLAVE and leaves the tables (entries, desc, features),
\* the order of the message's instructions and the buffer pool as they
\* were; no buffered packet is run through the pipeline.
C7_SlaveRejected ==
    [][(HandlerCall /\ call'.role = "OFPCR_ROLE_SLAVE") =>
          /\ ret' = IS_SLAVE
          /\ flows' = flows
          /\ desc' = desc
          /\ features' = features
          /\ buffers' = buffers
          /\ inbox'.msg.instructions = inbox'.wire
          /\ log' = <<>>
          /\ pc' = "idle"]_vars

\* a slave's ADD with instructions out of order and a live buffer id was
\* rejected, table 0 holding an entry and the pool the packet
C7_Witness ==
    /\ call = [op |-> "flow_mod", role |-> "OFPCR_ROLE_SLAVE"]
    /\ ret = IS_SLAVE
    /\ inbox.msg.command = "OFPFC_ADD"
    /\ inbox.msg.instructions = Unsorted
    /\ libc_qsort = "merge"
    /\ flows[0] # {}
    /\ ~buffers[inbox.msg.buffer_id].null

\* the step is a call of pipeline_handle_flow_mod by a sender that is no
\* slave, with table_id 0xff and a command that is no delete
AllTablesNonDelete ==
    /\ HandlerCall
    /\ call'.op = "flow_mod"
    /\ call'.role # "OFPCR_ROLE_SLAVE"
    /\ inbox'.msg.table_id = ALL_TABLES
    /\ inbox'.msg.command \in {"OFPFC_ADD", "OFPFC_MODIFY", "OFPFC_MODIFY_STRICT"}

\* the call returns FLOW_MOD_FAILED/BAD_TABLE_ID and has modified no table
\* (so installed no mirror entry) and replayed no buffered packet
RejectedBadTableId ==
    /\ ret' = BAD_TABLE_ID
    /\ flows' = flows
    /\ buffers' = buffers
    /\ log' = <<>>
    /\ pc' = "idle"

\* C10 as stated: every flow-mod of a sender that is no slave with table_id
\* 0xff and a command other than DELETE and DELETE_STRICT returns
\* FLOW_MOD_FAILED/BAD_TABLE_ID, and modifies no table, installs no mirror
\* entry and replays no buffered packet.
C10_AllTablesNonDelete ==
    [][AllTablesNonDelete => RejectedBadTableId]_vars

\* C10 amended: the same for the flow-mods whose Apply-Actions and
\* Write-Actions instructions pass the validation of their actions; the
\* others return the validator's error, and they too modify no table and
\* replay no packet.
C10_AllTablesNonDeleteValid ==
    [][AllTablesNonDelete =>
          /\ ValidateActions(inbox'.wire, inbox'.ext) = OK => RejectedBadTableId
          /\ ValidateActions(inbox'.wire, inbox'.ext) # OK =>
                ret' = ValidateActions(inbox'.wire, inbox'.ext)
          /\ flows' = flows
          /\ buffers' = buffers
          /\ log' = <<>>
          /\ pc' = "idle"]_vars

\* a master's MODIFY for all tables with out-of-order instructions and a
\* live buffer id was rejected, table 0 holding an entry it covers
C10_Witness ==
    /\ call = [op |-> "flow_mod", role |-> "OFPCR_ROLE_MASTER"]
    /\ inbox.msg.table_id = ALL_TABLES
    /\ inbox.msg.command = "OFPFC_MODIFY"
    /\ ret = BAD_TABLE_ID
    /\ \E e \in flows[0] : e.instructions # inbox.msg.instructions
    /\ ~buffers[inbox.msg.buffer_id].null

----------------------------------------------------------------------------
(* SyncSpec: flow-mods into tables 0 and 62 that carry a buffer id, the    *)
(* collaborators failing or not, and the packets that fill the buffer      *)
(* pool.                                                                   *)

EthPair == MatchOf({Tlv("OXM_OF_ETH_DST", MacA), Tlv("OXM_OF_ETH_SRC", MacB)})

CloneFails == Ext(OK, NO_TABLE, TRUE)
SlaveTableFails == Ext(OK, SYNC_SLAVE_TABLE, FALSE)
MasterTableFails == Ext(OK, SYNC_MASTER_TABLE, FALSE)
Table0Fails == Ext(OK, 0, FALSE)

SyncFlowMod(t, command, priority, match, insts, buffer_id, ext) ==
    Input("flow_mod", "OFPCR_ROLE_MASTER",
          FlowModMsg(t, command, priority, match, insts, buffer_id, 5), ext)

SyncFlowMods ==
    {Add(0, 0, AnyPkt, <<ApplyActions(OFPP_CONTROLLER)>>, NO_BUFFER)}
    \cup
    {SyncFlowMod(SYNC_MASTER_TABLE, "OFPFC_ADD", 1, match, <<WriteActions(3)>>, buffer_id, ext) :
        match \in {EthPair, ToMacA},
        buffer_id \in {1, NO_BUFFER},
        ext \in {NoExt, CloneFails, SlaveTableFails, MasterTableFails}}
    \cup
    {SyncFlowMod(0, command, 1, ToMacA, <<WriteActions(3)>>, buffer_id_ext[1],
                 buffer_id_ext[2]) :
        command \in {"OFPFC_ADD", "OFPFC_MODIFY", "OFPFC_MODIFY_STRICT", "OFPFC_DELETE",
                     "OFPFC_DELETE_STRICT"},
        buffer_id_ext \in {<<1, NoExt>>, <<NO_BUFFER, NoExt>>, <<1, Table0Fails>>}}
    \cup
    {SyncFlowMod(0, "OFPFC_ADD", 1, ToMacA, <<ApplyActions(2)>>, 1, Invalid),
     SyncFlowMod(ALL_TABLES, "OFPFC_MODIFY", 1, ToMacA, <<WriteActions(3)>>, 1, NoExt),
     SyncFlowMod(ALL_TABLES, "OFPFC_DELETE", 1, AnyPkt, <<>>, 1, NoExt)}

SyncPackets == {Packet(TRUE, MacB, MacA, IpA), Packet(FALSE, MacB, MacA, IpA)}

SyncInit == InitWith({Buffering}, {"merge"}, {NoInput})

SyncFlowModArrives == \E in \in SyncFlowMods : HandleFlowMod(in)

SyncPacketArrives == \E p \in SyncPackets : ProcessPacket(p)

SyncNext == SyncFlowModArrives \/ SyncPacketArrives \/ PipelineStep

SyncSpec == SyncInit /\ [][SyncNext]_vars

\* the step is a call of pipeline_handle_flow_mod by a sender that is no slave
FlowModCall ==
    /\ HandlerCall
    /\ call'.op = "flow_mod"
    /\ call'.role # "OFPCR_ROLE_SLAVE"

\* the call did not return an error: it returned 0, or is running the
\* buffered packet through the pipeline before it returns
Succeeds == ret' \in {OK, "running"}

\* a match with every ETH_SRC field made ETH_DST and every ETH_DST field
\* made ETH_SRC, the other fields and the values as they are
SwapEth(match) ==
    [length |-> match.length,
     match_fields |->
        {[header |-> CASE f.header = "OXM_OF_ETH_SRC" -> "OXM_OF_ETH_DST"
                       [] f.header = "OXM_OF_ETH_DST" -> "OXM_OF_ETH_SRC"
                       [] OTHER -> f.header,
          value |-> f.value] : f \in match.match_fields}]

\* the entries of table t the message's ADD made: its match (as given by
\* match), priority, instructions and cookie
EntriesOf(fl, t, msg, match) ==
    {e \in fl[t] : /\ e.match = match
                   /\ e.priority = msg.priority
                   /\ e.instructions = msg.instructions
                   /\ e.cookie = msg.cookie}

\* the clone or the install into table 63 fails
MirrorFails(ext) == ext.clone_err \/ ext.fail_table = SYNC_SLAVE_TABLE

\* C11: an ADD into table 62 that succeeds leaves its entry m in table 62
\* and returns 0 (after the replay of a buffered packet, when there is
\* one); and either (a) table 63 holds an entry s with m's priority,
\* instructions and cookie and m's match with ETH_SRC and ETH_DST swapped,
\* m.sync_slave is s and s.sync_master is m, or (b) the clone or the install
\* into table 63 failed, table 63 is as it was and m.sync_slave is not set;
\* never both.
C11_MirrorOrSilentFailure ==
    /\ [][(FlowModCall /\ Succeeds /\ inbox'.msg.table_id = SYNC_MASTER_TABLE
             /\ inbox'.msg.command = "OFPFC_ADD") =>
            /\ Cardinality(EntriesOf(flows', SYNC_MASTER_TABLE, inbox'.msg, inbox'.msg.match)) = 1
            /\ \A m \in EntriesOf(flows', SYNC_MASTER_TABLE, inbox'.msg, inbox'.msg.match) :
                  LET a == \E s \in EntriesOf(flows', SYNC_SLAVE_TABLE, inbox'.msg,
                                             SwapEth(inbox'.msg.match)) :
                              /\ m.sync_slave = Ref(SYNC_SLAVE_TABLE, s)
                              /\ s.sync_master = Ref(SYNC_MASTER_TABLE, m)
                      b == /\ MirrorFails(inbox'.ext)
                           /\ m.sync_slave = NullRef
                           /\ flows'[SYNC_SLAVE_TABLE] = flows[SYNC_SLAVE_TABLE]
                  IN  (a \/ b) /\ ~(a /\ b) /\ (b <=> MirrorFails(inbox'.ext))]_vars
    /\ []((call.op = "flow_mod" /\ pc = "done") => ret = OK)

\* an ADD into table 62 matching ETH_DST and ETH_SRC has returned 0 and
\* the two entries are linked, the mirror's match having the fields swapped
C11_Witness ==
    /\ call.op = "flow_mod" /\ ret = OK
    /\ inbox.msg.table_id = SYNC_MASTER_TABLE
    /\ inbox.msg.match = EthPair
    /\ \E m \in flows[SYNC_MASTER_TABLE], s \in flows[SYNC_SLAVE_TABLE] :
          /\ m.match = EthPair
          /\ s.match = MatchOf({Tlv("OXM_OF_ETH_SRC", MacA), Tlv("OXM_OF_ETH_DST", MacB)})
          /\ m.sync_slave = Ref(SYNC_SLAVE_TABLE, s)
          /\ s.sync_master = Ref(SYNC_MASTER_TABLE, m)

\* the message's buffer id names a packet of the pool
LiveBuffer(bufs, msg) ==
    msg.buffer_id \in DOMAIN bufs /\ ~bufs[msg.buffer_id].null

\* the call has handed a packet to pipeline_process_packet
Replays == pc' # "idle"

\* the tables hold what the message asked for: the entry of an ADD (and its
\* mirror in table 63 for an ADD into table 62 whose mirror step did not
\* fail), the new instructions on every entry a MODIFY covers
RuleInstalled(fl, in) ==
    /\ in.msg.command = "OFPFC_ADD" =>
          /\ EntriesOf(fl, in.msg.table_id, in.msg, in.msg.match) # {}
          /\ (in.msg.table_id = SYNC_MASTER_TABLE /\ ~MirrorFails(in.ext)) =>
                EntriesOf(fl, SYNC_SLAVE_TABLE, in.msg, SwapEth(in.msg.match)) # {}
    /\ in.msg.command = "OFPFC_MODIFY" =>
          \A e \in fl[in.msg.table_id] :
              in.msg.match.match_fields \subseteq e.match.match_fields =>
                  e.instructions = in.msg.instructions
    /\ in.msg.command = "OFPFC_MODIFY_STRICT" =>
          \A e \in fl[in.msg.table_id] :
              (e.match = in.msg.match /\ e.priority = in.msg.priority) =>
                  e.instructions = in.msg.instructions

\* C12: a flow-mod hands a packet to pipeline_process_packet exactly when
\* it is an ADD, MODIFY or MODIFY_STRICT that succeeded in its table and its
\* buffer id names a buffered packet: never when it returned an error, for
\* a delete or when the buffer is missing.  The packet is the buffered one,
\* it has left the pool, and the tables it is looked up in hold the rule
\* (and the table-63 mirror of an ADD into table 62) and stay as they are
\* while it is processed; the call then returns 0.  With the buffer missing
\* a flow-mod that nothing else fails returns 0.
C12_ReplayAfterInstall ==
    /\ [][FlowModCall =>
            /\ Replays <=>
                  /\ Succeeds
                  /\ inbox'.msg.command \in {"OFPFC_ADD", "OFPFC_MODIFY", "OFPFC_MODIFY_STRICT"}
                  /\ LiveBuffer(buffers, inbox'.msg)
            /\ Replays =>
                  /\ [pkt' EXCEPT !.buffer_id = NO_BUFFER] =
                        [buffers[inbox'.msg.buffer_id] EXCEPT !.buffer_id = NO_BUFFER]
                  /\ pkt'.ttl_valid =>
                        /\ buffers'[inbox'.msg.buffer_id].null
                        /\ pc' = "loop" /\ next_table' = 0 /\ log' = <<>>
                  /\ RuleInstalled(flows', inbox')
            /\ ~Replays => log' = <<>>
            /\ (/\ inbox'.ext = NoExt /\ inbox'.msg.table_id # ALL_TABLES
                /\ ~LiveBuffer(buffers, inbox'.msg)) => ret' = OK]_vars
    /\ [][pc = "loop" => flows' = flows]_vars
    /\ []((call.op = "flow_mod" /\ pc = "done") => ret = OK)

\* the packet an ADD into table 0 replayed was looked up in table 0 after
\* the ADD and hit the entry the ADD installed, and the call returned 0
C12_Witness ==
    /\ call.op = "flow_mod" /\ pc = "done" /\ ret = OK
    /\ inbox.msg.command = "OFPFC_ADD" /\ inbox.msg.table_id = 0
    /\ inbox.msg.buffer_id = 1
    /\ log # <<>>
    /\ log[1].ev = "flow_table_lookup" /\ log[1].table = 0 /\ log[1].hit
    /\ log[1].priority = inbox.msg.priority /\ log[1].cookie = inbox.msg.cookie

----------------------------------------------------------------------------
(* FeatSpec: table-features requests of two remotes, whole and in          *)
(* fragments, and table-features save and restore, for builds of 8, 12 and *)
(* 64 tables.                                                              *)

\* a descriptor of a request's body
Feat(t, c) == [table_id |-> t, name |-> "request", config |-> c]

FeatTableCounts == {8, 12, PIPELINE_TABLES}

FeatRequests ==
    {FeaturesInput("OFPCR_ROLE_MASTER", "r1", 1, Request(flags, body)) :
        flags \in {0, OFPMPF_REQ_MORE}, body \in {<<>>, <<Feat(0, 1)>>}}
    \cup
    {FeaturesInput("OFPCR_ROLE_MASTER", "r1", 2, Request(flags, <<Feat(0, 1)>>)) :
        flags \in {0, OFPMPF_REQ_MORE}}
    \cup
    {FeaturesInput("OFPCR_ROLE_EQUAL", "r2", 1, Request(flags, <<Feat(1, 1)>>)) :
        flags \in {0, OFPMPF_REQ_MORE}}

FeatInit == \E n \in FeatTableCounts : InitBuild(n, {Buffering}, {"merge"}, {NoInput})

FeatRequest ==
    \E in \in FeatRequests, oob \in OutOfBoundsReads : HandleTableFeatures(in, oob)

FeatNext == FeatRequest \/ HandleFeaturesSave \/ HandleFeaturesRestore

FeatSpec == FeatInit /\ [][FeatNext]_vars

\* the step is a call of the table-features request handler
FeaturesCall == Idle /\ call'.op = "table_features"

\* the remote has a pending request
Pending(remote) == ~remote.mp_req_msg.null

\* C13: a remote holds at most one pending request (one buffer, one XID).
\* While a remote has a pending request with XID x, a table-features request
\* of that remote with another XID, fragment or not, returns
\* BAD_REQUEST/MULTIPART_BUFFER_OVERFLOW: the pending buffer and its XID,
\* every table's features and the other remotes are as they were and no
\* reply is sent.
C13_OnePendingRequest ==
    [][(/\ FeaturesCall
        /\ Pending(remotes[inbox'.remote])
        /\ inbox'.xid # remotes[inbox'.remote].mp_req_xid) =>
            /\ ret' = MULTIPART_BUFFER_OVERFLOW
            /\ remotes' = remotes
            /\ features' = features
            /\ saved_features' = saved_features
            /\ replies' = <<>>]_vars

\* a request with another XID and no REQ_MORE was refused while a fragment
\* with a body was pending, the other remote having a pending request too
C13_Witness ==
    /\ call.op = "table_features"
    /\ ret = MULTIPART_BUFFER_OVERFLOW
    /\ inbox.remote = "r1" /\ inbox.xid = 2 /\ inbox.msg.flags = 0
    /\ inbox.msg.table_features = <<Feat(0, 1)>>
    /\ remotes["r1"].mp_req_xid = 1
    /\ remotes["r1"].mp_req_msg.table_features = <<Feat(0, 1)>>
    /\ Pending(remotes["r2"])
    /\ features[0].config = 0

\* the bodies of a sequence of fragments, one after the other
RECURSIVE Concat(_)
Concat(bodies) ==
    IF bodies = <<>> THEN <<>> ELSE Head(bodies) \o Concat(Tail(bodies))

\* the step hands the remote a fragment of the request it has pending, or
\* the first fragment of a request when it has none pending
FragmentCall ==
    /\ FeaturesCall
    /\ Pending(remotes[inbox'.remote]) => inbox'.xid = remotes[inbox'.remote].mp_req_xid

\* the result of the step is that of the handler called, with nothing
\* pending, for one request without REQ_MORE whose body is body
AsUnfragmented(body) ==
    \E oob \in OutOfBoundsReads :
        \E u \in {pipeline_handle_stats_request_table_features_request(
                      features, [mp_req_msg |-> NoRequest, mp_req_xid |-> 0],
                      Request(0, body), inbox'.xid, pipeline_tables, oob)} :
            /\ ret' = u.error
            /\ features' = u.features
            /\ replies' = u.replies

\* C14: of the fragments F1..Fk of a request, sent in order by one remote
\* under one XID, each fragment with REQ_MORE returns 0, sends no reply and
\* leaves the features as they are; the fragment without REQ_MORE leaves
\* the features and the reply stream that the handler produces for the one
\* unfragmented request whose body is the bodies of F1..Fk one after the
\* other, and leaves nothing pending.
C14_ReassemblyEquivalence ==
    [][FragmentCall =>
          /\ inbox'.msg.flags = OFPMPF_REQ_MORE =>
                /\ ret' = OK
                /\ replies' = <<>>
                /\ features' = features
                /\ Pending(remotes'[inbox'.remote])
          /\ inbox'.msg.flags = 0 =>
                /\ AsUnfragmented(Concat(frags[inbox'.remote] \o <<inbox'.msg.table_features>>))
                /\ ~Pending(remotes'[inbox'.remote])]_vars

\* a request sent in three fragments, the last one empty, has set the
\* features of table 0 and was answered with the 8 messages of 64 tables
C14_Witness ==
    /\ call.op = "table_features" /\ ret = OK
    /\ inbox.fragments = 3
    /\ inbox.msg.flags = 0 /\ inbox.msg.table_features = <<>>
    /\ features[0] = Feat(0, 1)
    /\ saved_features[0].config = 0
    /\ Len(replies) = 8
    /\ ~Pending(remotes[inbox.remote])

\* the table indices the messages of a reply stream list, in order
RECURSIVE TablesOf(_)
TablesOf(stream) ==
    IF stream = <<>> THEN <<>> ELSE Head(stream).tables \o TablesOf(Tail(stream))

\* the reply stream lists tables 0 .. n-1 once each in increasing order, k
\* tables a message, what it gives for a table being what table is at that
\* index, with REPLY_MORE set on every message but the last
FramedStream(stream, n, k, table) ==
    /\ Len(stream) * k = n
    /\ TablesOf(stream) = [i \in 1..n |-> i - 1]
    /\ \A m \in 1..Len(stream) :
          /\ stream[m].tables_num = k
          /\ Len(stream[m].tables) = k
          /\ \A i \in 1..k : stream[m].body[i] = table[stream[m].tables[i]]
          /\ stream[m].flags = (IF m = Len(stream) THEN 0 ELSE OFPMPF_REPLY_MORE)

\* the last call was a table-features request that was complete
CompletedFeaturesRequest ==
    /\ call.op = "table_features"
    /\ ret # MULTIPART_BUFFER_OVERFLOW
    /\ inbox.msg.flags = 0

\* C15: in a build whose PIPELINE_TABLES is a multiple of 8, a completed
\* table-features request returns 0 and is answered with PIPELINE_TABLES/8
\* messages of 8 tables each, which list the features of tables
\* 0 .. PIPELINE_TABLES-1 once each in increasing order and read no other
\* index, REPLY_MORE being set on every message but the last.
C15_FeaturesReplyFraming ==
    (CompletedFeaturesRequest /\ pipeline_tables % 8 = 0) =>
        /\ ret = OK
        /\ FramedStream(replies, pipeline_tables, 8, features)

\* the 8 messages of a build of 64 tables, the second table of the first
\* message having the features a request has set
C15_Witness ==
    /\ CompletedFeaturesRequest
    /\ pipeline_tables = PIPELINE_TABLES
    /\ Len(replies) = 8
    /\ features[1] = Feat(1, 1)
    /\ replies[1].body[2] = Feat(1, 1)
    /\ replies[1].flags = OFPMPF_REPLY_MORE
    /\ replies[8].flags = 0
    /\ replies[8].tables[8] = PIPELINE_TABLES - 1

\* the config of every table's features
ConfigOf(feats) == [t \in DOMAIN feats |-> feats[t].config]

\* C19: pipeline_handle_table_features_save copies every table's
\* features.config to saved_features.config and leaves the features as they
\* are; nothing else changes saved_features; and
\* pipeline_handle_table_features_restore copies it back, whatever happened
\* to the features in between (a request may have replaced a table's
\* descriptor: the new descriptor gets the saved config and keeps the rest),
\* leaves saved_features as it is, and done twice gives what it gives done
\* once.
C19_SaveRestoreRollback ==
    /\ [][(Idle /\ call'.op = "table_features_save") =>
            /\ features' = features
            /\ ConfigOf(saved_features') = ConfigOf(features)]_vars
    /\ [][saved_features' # saved_features => call'.op = "table_features_save"]_vars
    /\ [][(Idle /\ call'.op = "table_features_restore") =>
            /\ saved_features' = saved_features
            /\ ConfigOf(features') = ConfigOf(saved_features)
            /\ \A t \in DOMAIN features :
                  features'[t] = [features[t] EXCEPT !.config = saved_features[t].config]]_vars
    /\ [](pipeline_handle_table_features_restore(
              pipeline_handle_table_features_restore(features, saved_features,
                                                     pipeline_tables),
              saved_features, pipeline_tables)
           = pipeline_handle_table_features_restore(features, saved_features,
                                                    pipeline_tables))

\* table 0's features were saved with config 0 and table 1's with config 1,
\* requests then replaced the descriptor of table 0 (config 1), and the
\* restore has set the new descriptor's config back to 0
C19_Witness ==
    /\ call.op = "table_features_restore"
    /\ saved_features[0].config = 0 /\ saved_features[1].config = 1
    /\ features[0] = [Feat(0, 1) EXCEPT !.config = 0]
    /\ features[1] = Feat(1, 1)

----------------------------------------------------------------------------
(* DescSpec: table-desc requests to builds of 64, 72 and 80 tables whose   *)
(* tables 0 and 1 the controller fills.                                    *)

DescTableCounts == {PIPELINE_TABLES, PIPELINE_TABLES + 8, PIPELINE_TABLES + 16}

DescFlowMods ==
    {Add(0, 1, AnyPkt, <<>>, NO_BUFFER),
     Add(0, 1, ToMacA, <<>>, NO_BUFFER),
     Add(1, 1, AnyPkt, <<>>, NO_BUFFER),
     Delete("OFPCR_ROLE_MASTER", 0)}

DescInit == \E n \in DescTableCounts : InitBuild(n, {Buffering}, {"merge"}, {NoInput})

DescFlowMod == \E in \in DescFlowMods : HandleFlowMod(in)

DescRequest ==
    \E role \in {"OFPCR_ROLE_MASTER", "OFPCR_ROLE_SLAVE"}, oob \in OutOfBoundsReads :
        HandleTableDesc(role, oob)

DescNext == DescFlowMod \/ DescRequest

DescSpec == DescInit /\ [][DescNext]_vars

\* the last call was a table-desc request and the reply stream is framed:
\* the call returned 0 and the stream lists the descriptors of tables
\* 0 .. PIPELINE_TABLES-1 once each in increasing order, 16 a message, no
\* other index, REPLY_MORE being set on every message but the last
DescFramed == ret = OK /\ FramedStream(replies, pipeline_tables, 16, desc)

\* C16 as stated: in every build whose PIPELINE_TABLES is a multiple of 8
\* and at least 64, the reply stream of a table-desc request is framed.
C16_DescReplyFraming ==
    (call.op = "table_desc" /\ pipeline_tables % 8 = 0 /\ pipeline_tables >= 64) =>
        DescFramed

\* C16 amended: in every build whose PIPELINE_TABLES is a multiple of 16
\* and at least 64, the reply stream of a table-desc request is framed.
C16_DescReplyFraming16 ==
    (call.op = "table_desc" /\ pipeline_tables % 16 = 0 /\ pipeline_tables >= 64) =>
        DescFramed

\* the 5 messages of a build of 80 tables, tables 0 and 1 holding entries
C16_Witness ==
    /\ call.op = "table_desc" /\ ret = OK
    /\ pipeline_tables = PIPELINE_TABLES + 16
    /\ Len(replies) = 5
    /\ replies[4].flags = OFPMPF_REPLY_MORE
    /\ replies[5].flags = 0
    /\ replies[5].tables[16] = pipeline_tables - 1
    /\ flows[0] # {} /\ flows[1] # {}

----------------------------------------------------------------------------
(* TableSpec: table-mods to one table and to all tables, from every role,  *)
(* with table-desc requests and flow-mods that fill table 0.               *)

TableTableMods ==
    {Input("table_mod", "OFPCR_ROLE_MASTER", TableModMsg(t, cfg_props[1], cfg_props[2]),
           NoExt) :
        t \in {0, ALL_TABLES},
        cfg_props \in {<<OFPTC_VACANCY_EVENTS, <<VacancyProp(10, 20)>>>>,
                       <<OFPTC_VACANCY_EVENTS, <<VacancyProp(99, 100)>>>>,
                       <<OFPTC_VACANCY_EVENTS, <<>>>>,
                       <<0, <<VacancyProp(30, 20)>>>>}}
    \cup
    {Input("table_mod", "OFPCR_ROLE_EQUAL", TableModMsg(1, OFPTC_VACANCY_EVENTS, <<>>), NoExt),
     Input("table_mod", "OFPCR_ROLE_EQUAL",
           TableModMsg(ALL_TABLES, 0, <<VacancyProp(10, 20)>>), NoExt),
     Input("table_mod", "OFPCR_ROLE_SLAVE",
           TableModMsg(ALL_TABLES, OFPTC_VACANCY_EVENTS, <<VacancyProp(10, 20)>>), NoExt)}

TableFlowMods ==
    {Add(0, 1, AnyPkt, <<>>, NO_BUFFER),
     Add(0, 1, ToMacA, <<>>, NO_BUFFER),
     Delete("OFPCR_ROLE_MASTER", 0)}

TableInit == InitWith({Buffering}, {"merge"}, {NoInput})

TableTableMod == \E in \in TableTableMods : HandleTableMod(in)

TableFlowMod == \E in \in TableFlowMods : HandleFlowMod(in)

TableDescRequest ==
    \E role \in {"OFPCR_ROLE_MASTER", "OFPCR_ROLE_SLAVE"}, oob \in OutOfBoundsReads :
        HandleTableDesc(role, oob)

TableNext == TableTableMod \/ TableFlowMod \/ TableDescRequest

TableSpec == TableInit /\ [][TableNext]_vars

\* this step is pipeline_handle_table_mod called by a sender that is not a slave
TableModCall ==
    /\ HandlerCall
    /\ call'.op = "table_mod"
    /\ call'.role # "OFPCR_ROLE_SLAVE"

\* the table-mod targets table t
Targeted(msg, t) == msg.table_id = ALL_TABLES \/ msg.table_id = t

\* C17: after pipeline_handle_table_mod returns 0 for a non-slave sender,
\* every targeted table (the table msg.table_id when it is below
\* PIPELINE_TABLES, every table when it is 0xff) has desc.config equal to
\* msg.config, and every other table's desc.config is unchanged.
C17_TableModSetsConfig ==
    [][(TableModCall /\ ret' = OK) =>
          \A t \in TableIds :
              desc'[t].config = IF Targeted(inbox'.msg, t) THEN inbox'.msg.config
                                ELSE desc[t].config]_vars

\* what the code does for one table: a table-mod of a non-slave sender to a
\* table id other than 0xff returns 0 and changes no descriptor
C17_SingleTableNoOp ==
    [][(TableModCall /\ inbox'.msg.table_id # ALL_TABLES) =>
          (ret' = OK /\ desc' = desc)]_vars

\* the table-mod carries a VACANCY property whose vacancy_down exceeds its
\* vacancy_up
Inverted(msg) ==
    \E mpi \in DOMAIN msg.props :
        /\ msg.props[mpi].type = "OFPTMPT_VACANCY"
        /\ msg.props[mpi].vacancy_down > msg.props[mpi].vacancy_up

\* the descriptor has a VACANCY property
HasVacancy(d) == \E tpi \in DOMAIN d.properties : d.properties[tpi].type = "OFPTMPT_VACANCY"

\* C18: a table-mod from a non-slave sender that carries a VACANCY property
\* with vacancy_down > vacancy_up and targets (by table id or by 0xff) a
\* table whose descriptor has a VACANCY property returns
\* TABLE_FEATURES_FAILED/BAD_ARGUMENT, and no descriptor holds inverted
\* thresholds afterwards.
C18_InvertedVacancyRejected ==
    [][(/\ TableModCall
        /\ Inverted(inbox'.msg)
        /\ \E t \in TableIds : Targeted(inbox'.msg, t) /\ HasVacancy(desc[t])) =>
          /\ ret' = BAD_ARGUMENT
          /\ \A t \in TableIds : \A tpi \in DOMAIN desc'[t].properties :
                 desc'[t].properties[tpi].vacancy_down <= desc'[t].properties[tpi].vacancy_up]_vars

\* what the code does for 0xff: the inverted thresholds are refused with
\* BAD_ARGUMENT and no descriptor changes
C18_AllTablesInvertedRejected ==
    [][(TableModCall /\ Inverted(inbox'.msg) /\ inbox'.msg.table_id = ALL_TABLES) =>
          (ret' = BAD_ARGUMENT /\ desc' = desc)]_vars

----------------------------------------------------------------------------
(* FwdSpec: packets through tables 0, 1 and 2 chained by Goto-Table.  The  *)
(* datapath's loop is single-threaded: once pipeline_process_packet is     *)
(* called its loop runs on, which is the fairness of PipelineStep.         *)

FwdFlowMods ==
    {Add(0, 1, AnyPkt, <<GotoTable(1)>>, NO_BUFFER),
     Add(0, 2, ToMacA, <<GotoTable(2)>>, NO_BUFFER),
     Add(1, 1, AnyPkt, <<GotoTable(2)>>, NO_BUFFER),
     Add(1, 2, ToMacA, <<GotoTable(0)>>, NO_BUFFER),
     Add(2, 1, AnyPkt, <<ApplyActions(2)>>, NO_BUFFER),
     Delete("OFPCR_ROLE_MASTER", 0),
     Delete("OFPCR_ROLE_MASTER", 1)}

FwdPackets == {Packet(TRUE, MacB, MacA, IpA), Packet(TRUE, MacA, MacB, IpA)}

FwdInit == InitWith({Buffering}, {"merge"}, {NoInput})

FwdFlowMod == \E in \in FwdFlowMods : HandleFlowMod(in)

FwdPacket == \E p \in FwdPackets : ProcessPacket(p)

FwdNext == FwdFlowMod \/ FwdPacket \/ PipelineStep

FwdSpec == FwdInit /\ [][FwdNext]_vars /\ WF_vars(PipelineStep)

\* every installed Goto-Table of table t targets a table above t and below
\* PIPELINE_TABLES
ForwardOnly ==
    \A t \in TableIds : \A e \in flows[t] : \A i \in DOMAIN e.instructions :
        e.instructions[i].type = OFPIT_GOTO_TABLE =>
            (t < e.instructions[i].a /\ e.instructions[i].a < PIPELINE_TABLES)

\* the tables looked up by the call, in order
LookedUp(lg) ==
    LET L == SelectSeq(lg, LAMBDA e : e.ev = "flow_table_lookup")
    IN  [i \in 1..Len(L) |-> L[i].table]

\* C20: provided every installed Goto-Table of table t targets a table
\* above t and below PIPELINE_TABLES, a call of pipeline_process_packet
\* looks up at most PIPELINE_TABLES tables, in strictly increasing index
\* order starting at table 0 (none twice, table 0 never again), the
\* packet's table_id is the index of the table at each lookup, and the
\* call terminates.
C20_ForwardGotoTerminates ==
    /\ [](ForwardOnly =>
            LET T == LookedUp(log)
            IN  /\ Len(T) <= PIPELINE_TABLES
                /\ T # <<>> => T[1] = 0
                /\ \A i \in 1..Len(T) : \A j \in 1..Len(T) : i < j => T[i] < T[j])
    /\ [][(pc = "loop" /\ ForwardOnly /\ log' # log) =>
             LET T == LookedUp(log')
             IN  /\ Len(T) = Len(LookedUp(log)) + 1
                 /\ T[Len(T)] = next_table
                 /\ pkt'.null \/ pkt'.table_id = next_table]_vars
    /\ (pc = "loop" /\ ForwardOnly) ~> (pc = "done")

\* a packet went through tables 0, 1 and 2 and was output from table 2
C20_Witness ==
    /\ ForwardOnly
    /\ call.op = "process_packet" /\ pc = "done"
    /\ LookedUp(log) = <<0, 1, 2>>
    /\ ~pkt.null /\ pkt.table_id = 2

----------------------------------------------------------------------------
(* DelSpec: deletes with table_id 0xff over tables 0, 1 and 2, the flow    *)
(* table of one of them failing or none.                                   *)

DelAdds ==
    {Add(0, 1, AnyPkt, <<>>, NO_BUFFER),
     Add(0, 1, ToMacA, <<>>, NO_BUFFER),
     Add(1, 1, ToMacA, <<>>, NO_BUFFER),
     Add(2, 1, AnyPkt, <<>>, NO_BUFFER)}

DelDeletes ==
    {Input("flow_mod", role,
           FlowModMsg(ALL_TABLES, command, 1, match, <<>>, NO_BUFFER, 0),
           Ext(OK, fail_table, FALSE)) :
        role \in {"OFPCR_ROLE_MASTER", "OFPCR_ROLE_EQUAL"},
        command \in {"OFPFC_DELETE", "OFPFC_DELETE_STRICT"},
        match \in {AnyPkt, ToMacA},
        fail_table \in {NO_TABLE, 0, 1, 2}}

DelInit == InitWith({Buffering}, {"merge"}, {NoInput})

DelAdd == \E in \in DelAdds : HandleFlowMod(in)

DelDelete == \E in \in DelDeletes : HandleFlowMod(in)

DelNext == DelAdd \/ DelDelete

DelSpec == DelInit /\ [][DelNext]_vars

\* the step is a DELETE or DELETE_STRICT with table_id 0xff of a sender
\* that is no slave
DeleteAllCall ==
    /\ FlowModCall
    /\ inbox'.msg.table_id = ALL_TABLES
    /\ inbox'.msg.command \in {"OFPFC_DELETE", "OFPFC_DELETE_STRICT"}

\* the entries of table t once the delete msg has been applied to it
Deleted(fl, t, msg) ==
    IF msg.command = "OFPFC_DELETE" THEN fl[t] \ Covered(fl[t], msg)
    ELSE fl[t] \ Same(fl[t], msg)

\* what the handler answers to the message as it arrived
Answer ==
    pipeline_handle_flow_mod(flows, buffers,
                             [inbox'.msg EXCEPT !.instructions = inbox'.wire],
                             inbox'.role, inbox'.ext, libc_qsort)

\* C21: a DELETE or DELETE_STRICT with table_id 0xff is applied to tables
\* 0, 1, 2, ... in increasing order.  When the delete fails in table k the
\* error is returned, tables 0..k-1 keep the effect of the delete, tables
\* k..PIPELINE_TABLES-1 are as they were and the message is not freed;
\* when no table fails every table has had the delete applied, 0 is
\* returned and the message is freed.
C21_DeleteAllNoUnwind ==
    [][DeleteAllCall =>
          LET k == inbox'.ext.fail_table
              msg == inbox'.msg
          IN  IF k \in TableIds
              THEN /\ ret' = TABLE_FULL
                   /\ \A t \in TableIds :
                         flows'[t] = IF t < k THEN Deleted(flows, t, msg) ELSE flows[t]
                   /\ ~Answer.freed
              ELSE /\ ret' = OK
                   /\ \A t \in TableIds : flows'[t] = Deleted(flows, t, msg)
                   /\ Answer.freed]_vars

\* a DELETE for all tables failed in table 1: table 0 lost its entries and
\* table 1 kept the one the delete covers
C21_Witness ==
    /\ call.op = "flow_mod" /\ ret = TABLE_FULL
    /\ inbox.msg.table_id = ALL_TABLES /\ inbox.msg.command = "OFPFC_DELETE"
    /\ inbox.ext.fail_table = 1
    /\ flows[0] = {}
    /\ Covered(flows[1], inbox.msg) # {}

\* (FLOW_TABLE_MAX_ENTRIES - active_count) * 100 / FLOW_TABLE_MAX_ENTRIES
FreePercentage(fl, t) ==
    ((FLOW_TABLE_MAX_ENTRIES - Cardinality(fl[t])) * 100) \div FLOW_TABLE_MAX_ENTRIES

\* the step is a table-mod that stores the thresholds of its VACANCY
\* property mpi in table t: the loop over the tables reaches t, the
\* thresholds are in order and the call returns 0
Stores(t, mpi) ==
    /\ TableModCall
    /\ inbox'.msg.table_id = ALL_TABLES
    /\ mpi \in DOMAIN inbox'.msg.props
    /\ inbox'.msg.props[mpi].type = "OFPTMPT_VACANCY"
    /\ ~Inverted(inbox'.msg)
    /\ HasVacancy(desc[t])
    /\ ret' = OK

\* C22 as stated: whenever pipeline_handle_table_mod stores vacancy
\* thresholds on a table, the stored down_set is true exactly when the
\* table's free percentage is strictly greater than the new vacancy_up.
C22_DownSetAbove ==
    [][\A t \in TableIds : \A mpi \in DOMAIN inbox'.msg.props :
          Stores(t, mpi) =>
              \A tpi \in DOMAIN desc'[t].properties :
                  /\ desc'[t].properties[tpi].vacancy_up = inbox'.msg.props[mpi].vacancy_up
                  /\ desc'[t].properties[tpi].vacancy_down = inbox'.msg.props[mpi].vacancy_down
                  /\ desc'[t].properties[tpi].down_set =
                         (FreePercentage(flows, t) > inbox'.msg.props[mpi].vacancy_up)]_vars

\* C22 amended: whenever pipeline_handle_table_mod stores vacancy
\* thresholds on a table, the stored down_set is true exactly when the
\* table's free percentage is greater than or equal to the new vacancy_up.
C22_DownSetAtOrAbove ==
    [][\A t \in TableIds : \A mpi \in DOMAIN inbox'.msg.props :
          Stores(t, mpi) =>
              \A tpi \in DOMAIN desc'[t].properties :
                  /\ desc'[t].properties[tpi].vacancy_up = inbox'.msg.props[mpi].vacancy_up
                  /\ desc'[t].properties[tpi].vacancy_down = inbox'.msg.props[mpi].vacancy_down
                  /\ desc'[t].properties[tpi].down_set =
                         (FreePercentage(flows, t) >= inbox'.msg.props[mpi].vacancy_up)]_vars

\* thresholds 99 and 100 were stored on all tables: the empty table 1 is
\* 100 per cent free, which equals vacancy_up, and has down_set; table 0
\* holds an entry, is 99 per cent free and has not
C22_Witness ==
    /\ call = [op |-> "table_mod", role |-> "OFPCR_ROLE_MASTER"] /\ ret = OK
    /\ inbox.msg.table_id = ALL_TABLES
    /\ flows[0] # {} /\ flows[1] = {}
    /\ desc[0].properties[1].vacancy_up = 100 /\ ~desc[0].properties[1].down_set
    /\ desc[1].properties[1].vacancy_up = 100 /\ desc[1].properties[1].down_set

\* the step is a table-desc request
TableDescCall == Idle /\ call'.op = "table_desc"

\* every VACANCY property of every table of the reply stream reports
\* Reported(t, pi), t being the table and pi the property's index
ReplyVacancies(Reported(_, _)) ==
    \A m \in DOMAIN replies' : \A i \in DOMAIN replies'[m].body :
        LET t == replies'[m].tables[i]
            d == replies'[m].body[i]
        IN  \A pi \in DOMAIN d.properties :
                d.properties[pi].type = "OFPTMPT_VACANCY" =>
                    d.properties[pi].vacancy = Reported(t, pi)

\* C23 as stated: in every table-desc reply, for every table with a VACANCY
\* property, whatever the table's desc.config is, the reported vacancy is
\* the free percentage computed from the table's active_count when the
\* reply is emitted.
C23_VacancyRecomputed ==
    [][TableDescCall => ReplyVacancies(LAMBDA t, pi : FreePercentage(flows, t))]_vars

\* C23 amended: in every table-desc reply, for every table with a VACANCY
\* property whose desc.config has OFPTC_VACANCY_EVENTS set, the reported
\* vacancy is the free percentage computed from the table's active_count
\* when the reply is emitted; for a table without the flag it is the
\* vacancy the property held before the request.
C23_VacancyRecomputedWhenEnabled ==
    [][TableDescCall =>
          ReplyVacancies(LAMBDA t, pi :
              IF HasVacancyEvents(desc[t].config) THEN FreePercentage(flows, t)
              ELSE desc[t].properties[pi].vacancy)]_vars

\* vacancy events are enabled on all tables, table 0 holds an entry and a
\* table-desc reply reports 99 for table 0 and 100 for table 1
C23_Witness ==
    /\ call.op = "table_desc" /\ ret = OK
    /\ flows[0] # {}
    /\ HasVacancyEvents(desc[0].config)
    /\ Len(replies) = 4
    /\ replies[1].tables[1] = 0 /\ replies[1].body[1].properties[1].vacancy = 99
    /\ replies[1].tables[2] = 1 /\ replies[1].body[2].properties[1].vacancy = 100

\* C24: the reassembly slot mp_req_msg of a remote is non-null on return
\* exactly when the remote has received one or more fragments with REQ_MORE
\* under one XID and not yet the fragment of that XID with REQ_MORE clear
\* (mp_req_xid being that XID); when a request completes the slot is null
\* and mp_req_xid is 0 on return, and the next request is accepted whatever
\* its XID.  Stated by induction on the requests: a request of another XID
\* than the pending one changes nothing, any other leaves the slot non-null
\* exactly when it has REQ_MORE set, and the other remotes' slots are as they
\* were.
C24_SlotTracksPendingFragments ==
    /\ [][(FeaturesCall /\ ret' # SIGSEGV) =>
             LET r == inbox'.remote
                 more == inbox'.msg.flags = OFPMPF_REQ_MORE
             IN  /\ \A o \in RemoteIds \ {r} : remotes'[o] = remotes[o]
                 /\ IF Pending(remotes[r]) /\ inbox'.xid # remotes[r].mp_req_xid
                    THEN remotes'[r] = remotes[r] /\ ret' = MULTIPART_BUFFER_OVERFLOW
                    ELSE /\ ret' = OK
                         /\ Pending(remotes'[r]) <=> more
                         /\ more => remotes'[r].mp_req_xid =
                                       IF Pending(remotes[r]) THEN remotes[r].mp_req_xid
                                       ELSE inbox'.xid]_vars
    /\ [](\A r \in RemoteIds : ~Pending(remotes[r]) => remotes[r].mp_req_xid = 0)

\* a request of remote r1 has set the features of table 0 and is complete;
\* its next request, under XID 2 and with REQ_MORE, was accepted and is
\* pending while r2 has a request of its own pending under XID 1
C24_Witness ==
    /\ call.op = "table_features" /\ ret = OK
    /\ inbox.remote = "r1" /\ inbox.xid = 2 /\ inbox.msg.flags = OFPMPF_REQ_MORE
    /\ features[0].name = "request"
    /\ Pending(remotes["r1"]) /\ remotes["r1"].mp_req_xid = 2
    /\ Pending(remotes["r2"]) /\ remotes["r2"].mp_req_xid = 1

----------------------------------------------------------------------------
(* LpmSeqSpec: sequences of flow-mods of every command into table 61, its  *)
(* neighbours, table 62 and 0xff, with prefix masks, a mask with a hole    *)
(* and priorities that fit or do not.                                      *)

LpmSeqMasks == {<<255, 255, 255, 0>>, <<255, 0, 255, 0>>, <<0, 0, 0, 0>>}

LpmSeqFlowMod(t, command, priority, match) ==
    Input("flow_mod", "OFPCR_ROLE_MASTER",
          FlowModMsg(t, command, priority, match, <<GotoTable(62)>>, NO_BUFFER, 3), NoExt)

LpmSeqInputs ==
    {LpmSeqFlowMod(LPM_TABLE, "OFPFC_ADD", priority, ToSubnet(mask)) :
        priority \in {0, 16, 24}, mask \in LpmSeqMasks}
    \cup
    {LpmSeqFlowMod(LPM_TABLE, "OFPFC_ADD", priority, ToIpA) : priority \in {24, 32}}
    \cup
    {LpmSeqFlowMod(LPM_TABLE, command, 16, ToSubnet(<<255, 0, 255, 0>>)) :
        command \in {"OFPFC_MODIFY", "OFPFC_MODIFY_STRICT", "OFPFC_DELETE_STRICT"}}
    \cup
    {LpmSeqFlowMod(t, "OFPFC_ADD", 16, ToSubnet(<<255, 0, 255, 0>>)) :
        t \in {LPM_TABLE - 1, SYNC_MASTER_TABLE, ALL_TABLES}}
    \cup
    {LpmSeqFlowMod(LPM_TABLE, "OFPFC_MODIFY", 5, AnyPkt),
     LpmSeqFlowMod(LPM_TABLE, "OFPFC_DELETE", 5, ToIpA),
     LpmSeqFlowMod(ALL_TABLES, "OFPFC_DELETE", 5, ToSubnet(<<255, 0, 255, 0>>)),
     LpmSeqFlowMod(ALL_TABLES, "OFPFC_MODIFY", 5, AnyPkt)}

LpmSeqInit == InitWith({Buffering}, {"merge"}, {NoInput})

LpmSeqNext == \E in \in LpmSeqInputs : HandleFlowMod(in)

LpmSeqSpec == LpmSeqInit /\ [][LpmSeqNext]_vars

\* C25: after any sequence of flow-mods accepted on an initially empty
\* pipeline, every entry of table 61 whose match holds a masked IPV4_DST
\* has a contiguous prefix mask and a priority equal to its prefix length,
\* and every entry of table 61 whose match holds an exact IPV4_DST has
\* priority 32.
C25_LpmTableInvariant ==
    \A e \in flows[LPM_TABLE] : \A f \in e.match.match_fields :
        /\ f.header = "OXM_OF_IPV4_DST_W" =>
              /\ IsPrefixMask(SubSeq(f.value, 5, 8))
              /\ e.priority = PrefixLength(SubSeq(f.value, 5, 8))
        /\ f.header = "OXM_OF_IPV4_DST" => e.priority = 32

\* table 61 holds a /24 entry of priority 24 and a /0 entry of priority 0;
\* an ADD with a mask that has a hole was just refused
C25_Witness ==
    /\ call.op = "flow_mod" /\ ret = BAD_NW_ADDR_MASK
    /\ inbox.msg.table_id = LPM_TABLE
    /\ \E e \in flows[LPM_TABLE] :
          e.match = ToSubnet(<<255, 255, 255, 0>>) /\ e.priority = 24
    /\ \E e \in flows[LPM_TABLE] : e.match = ToSubnet(<<0, 0, 0, 0>>) /\ e.priority = 0

----------------------------------------------------------------------------
(* SlaveSpec: the flow-mods, table-mods and table-features requests of a   *)
(* SLAVE sender, on a pipeline a master fills.                             *)

SlaveInputs ==
    {Add(0, 1, AnyPkt, <<>>, NO_BUFFER),
     Add(1, 1, ToMacA, <<>>, NO_BUFFER),
     Input("table_mod", "OFPCR_ROLE_MASTER",
           TableModMsg(ALL_TABLES, OFPTC_VACANCY_EVENTS, <<VacancyProp(10, 20)>>), NoExt)}
    \cup
    {Input("flow_mod", "OFPCR_ROLE_SLAVE",
           FlowModMsg(t, command, 1, AnyPkt, <<ApplyActions(2)>>, NO_BUFFER, 4), NoExt) :
        t \in {0, ALL_TABLES},
        command \in {"OFPFC_ADD", "OFPFC_MODIFY", "OFPFC_DELETE"}}
    \cup
    {Input("table_mod", "OFPCR_ROLE_SLAVE", TableModMsg(t, 0, <<VacancyProp(1, 2)>>), NoExt) :
        t \in {0, ALL_TABLES}}
    \cup
    {FeaturesInput("OFPCR_ROLE_SLAVE", "r1", 1, Request(flags, body)) :
        flags \in {0, OFPMPF_REQ_MORE}, body \in {<<>>, <<Feat(0, 1)>>, <<Feat(1, 1)>>}}

SlaveInit == InitWith({Buffering}, {"merge"}, {NoInput})

SlaveNext ==
    \E in \in SlaveInputs :
        \/ HandleFlowMod(in)
        \/ HandleTableMod(in)
        \/ \E oob \in OutOfBoundsReads : HandleTableFeatures(in, oob)

SlaveSpec == SlaveInit /\ [][SlaveNext]_vars

\* the step is a flow-mod, a table-mod or a table-features request of a
\* SLAVE sender
SlaveCall ==
    /\ Idle
    /\ call'.op \in {"flow_mod", "table_mod", "table_features"}
    /\ call'.role = "OFPCR_ROLE_SLAVE"

\* C26: a controller whose role is SLAVE cannot mutate the pipeline through
\* any handler: after a flow-mod, a table-mod or a table-features request
\* (with or without a body, fragmented or not) of a SLAVE sender, every
\* table's flow entries, desc and features are as they were before it.
C26_SlaveCannotMutate ==
    [][SlaveCall => (flows' = flows /\ desc' = desc /\ features' = features)]_vars

\* what the code does: no handler called by a SLAVE sender changes a
\* table's flow entries or desc
C26_SlaveKeepsFlowsAndDesc ==
    [][SlaveCall => (flows' = flows /\ desc' = desc)]_vars

\* what the code does: a table-features request of a SLAVE sender is
\* answered as any other sender's, never with IS_SLAVE
C26_SlaveFeaturesNotRejected ==
    [][(SlaveCall /\ call'.op = "table_features") => ret' # IS_SLAVE]_vars

====
